---- MODULE Spec2Model ----
(***************************************************************************)
(* Session store (app/task_tracker.py) and container orchestrator          *)
(* (app/container_manager.py) of the docker sandbox example, as a state    *)
(* machine.  Every redis command and every docker client call is one       *)
(* atomic step of the calling worker; workers interleave between steps,    *)
(* and the container runtime changes under them (containers stop or        *)
(* vanish, the daemon goes away and comes back).                           *)
(***************************************************************************)
EXTENDS Integers, Sequences, FiniteSets, TLC

\* ------------------------------------------------------------------ bounds
NProcs == 3          \* concurrent workers
MaxOps == 3          \* store calls started in one behaviour of SpecTracker
MaxCalls == 2        \* orchestrator calls started in one behaviour of Spec
MaxContainers == 3   \* containers the runtime creates in one behaviour
MaxEnv == 2          \* changes of the runtime made behind the orchestrator's back
MaxClock == 3        \* datetime.utcnow() ranges over 1..MaxClock

Procs == 1..NProcs
Cids == 1..MaxContainers

\* Python None for Optional[str] / Optional[datetime] fields of TaskState
None == 0
\* JSON null in the stored document
JsonNull == <<>>

SessionIds == {"s1"}
\* correlation ids a caller may pass: a real one or the empty string
CallIds == SessionIds \cup {""}
\* the sessions a scan of the key space finds: s1 and a session nobody is using
ScanIds == SessionIds \cup {"s2"}
\* task_name arguments; "" stands for a falsy name (None or empty)
TaskNames == {"", "build"}
\* shell commands: one that exits 0 and one that does not
Commands == {"true", "false"}

VARIABLES
    store,            \* redis: key -> <<>> (no value) or <<document>>
    clock,            \* datetime.utcnow(), at the resolution of the sessions' lifetimes
    pc,               \* per worker: position in the code
    stk,              \* per worker: call stack (call sites to return to)
    loc,              \* per worker: local variables of the running call
    watch,            \* per worker: the pipeline's WATCH ("none","clean","dirty")
    res,              \* per worker: outcome of the call that has just returned
    prev,             \* per worker: outcome of the call before that, when the
                      \* worker repeated it (same operation, same session)
    nStarted,         \* top-level calls started
    nReg,             \* per session: register_task calls completed
    nFin,             \* per session: finish_task calls completed
    exceeded,         \* per session: at some point finishes outnumbered registers
    dockerAvailable,  \* ContainerManager._docker_available
    redisUp,          \* the redis server answers
    daemonUp,         \* the docker daemon answers
    containers,       \* runtime: container id -> "absent" | "running" | "exited"
    nextCid,          \* runtime: id the next created container gets
    image,            \* runtime: the sandbox image exists
    nEnv              \* runtime changes so far

hist == <<nReg, nFin, exceeded>>
runtime == <<containers, nextCid, image>>
ctl == <<pc, stk, loc, res, prev>>
vars == <<store, clock, pc, stk, loc, watch, res, prev, nStarted, nReg, nFin,
          exceeded, dockerAvailable, redisUp, daemonUp, containers, nextCid, image, nEnv>>

\* ------------------------------------------------------- TaskState <-> dict
isoformat(t) == <<"iso", t>>
fromisoformat(s) == s[2]

to_dict(s) ==
    [correlation_id |-> s.correlation_id,
     first_seen |-> isoformat(s.first_seen),
     last_seen |-> isoformat(s.last_seen),
     has_sandbox |-> s.has_sandbox,
     running_task_count |-> s.running_task_count,
     task_history |-> s.task_history,
     container_id |-> s.container_id,
     container_created_at |->
        IF s.container_created_at # None THEN isoformat(s.container_created_at) ELSE JsonNull,
     last_task_completed_at |->
        IF s.last_task_completed_at # None THEN isoformat(s.last_task_completed_at) ELSE JsonNull]

from_dict(d) ==
    [correlation_id |-> d.correlation_id,
     first_seen |-> fromisoformat(d.first_seen),
     last_seen |-> fromisoformat(d.last_seen),
     has_sandbox |-> d.has_sandbox,
     running_task_count |-> d.running_task_count,
     task_history |-> d.task_history,
     container_id |-> d.container_id,
     container_created_at |->
        IF d.container_created_at # JsonNull THEN fromisoformat(d.container_created_at) ELSE None,
     last_task_completed_at |->
        IF d.last_task_completed_at # JsonNull THEN fromisoformat(d.last_task_completed_at) ELSE None]

\* a key that leaves the correlation id out
_get_key_shared(correlation_id) == <<"task_tracker:", "">>

_get_key(correlation_id) == <<"task_tracker:", correlation_id>>

Keys == {_get_key(i) : i \in CallIds \cup ScanIds}

\* ------------------------------------------------- the updates each op computes
\* a registration that starts the history of the record again
RegisterExistingRestarted(state, now, task_name) ==
    [state EXCEPT !.last_seen = now,
                  !.running_task_count = @ + 1,
                  !.task_history = IF task_name # "" THEN <<task_name>> ELSE @]

\* register_task, record present: lines 88-92
RegisterExisting(state, now, task_name) ==
    [state EXCEPT !.last_seen = now,
                  !.running_task_count = @ + 1,
                  !.task_history = IF task_name # "" THEN Append(@, task_name) ELSE @]

\* a first registration that forgets the name of the task
RegisterNewUnnamed(correlation_id, now, task_name) ==
    [correlation_id |-> correlation_id,
     first_seen |-> now,
     last_seen |-> now,
     has_sandbox |-> FALSE,
     running_task_count |-> 1,
     task_history |-> <<>>,
     container_id |-> None,
     container_created_at |-> None,
     last_task_completed_at |-> None]

\* register_task, record absent: lines 94-102
RegisterNew(correlation_id, now, task_name) ==
    [correlation_id |-> correlation_id,
     first_seen |-> now,
     last_seen |-> now,
     has_sandbox |-> FALSE,
     running_task_count |-> 1,
     task_history |-> IF task_name # "" THEN <<task_name>> ELSE <<>>,
     container_id |-> None,
     container_created_at |-> None,
     last_task_completed_at |-> None]

Max(a, b) == IF a >= b THEN a ELSE b

\* a finish_task that decrements without the floor of line 129
FinishUnfloored(state, now) ==
    [state EXCEPT !.running_task_count = @ - 1,
                  !.last_seen = now,
                  !.last_task_completed_at = now]

\* finish_task, record present: lines 128-131
FinishExisting(state, now) ==
    [state EXCEPT !.running_task_count = Max(0, @ - 1),
                  !.last_seen = now,
                  !.last_task_completed_at = now]

\* a set_container_id that rewrites the record as it found it
ContainerKept(state, container_id, now) == state

\* set_container_id, record present: lines 200-202
ContainerExisting(state, container_id, now) ==
    [state EXCEPT !.container_id = container_id,
                  !.container_created_at = now]

\* a new record that does not take the creation time
ContainerNewUnstamped(correlation_id, container_id, now) ==
    [correlation_id |-> correlation_id,
     first_seen |-> now,
     last_seen |-> now,
     has_sandbox |-> FALSE,
     running_task_count |-> 0,
     task_history |-> <<>>,
     container_id |-> container_id,
     container_created_at |-> None,
     last_task_completed_at |-> None]

\* set_container_id, record absent: lines 212-218 (dataclass defaults, lines 19-24)
ContainerNew(correlation_id, container_id, now) ==
    [correlation_id |-> correlation_id,
     first_seen |-> now,
     last_seen |-> now,
     has_sandbox |-> FALSE,
     running_task_count |-> 0,
     task_history |-> <<>>,
     container_id |-> container_id,
     container_created_at |-> now,
     last_task_completed_at |-> None]

\* an argument check that lets a falsy container_id through
InvalidCorrelationId(correlation_id, container_id) ==
    correlation_id = ""

\* set_container_id's argument check, line 186
InvalidParameters(correlation_id, container_id) ==
    correlation_id = "" \/ container_id = None

\* get_state / get_container_id, lines 165-182 and 230-243: one redis GET
get_state(correlation_id) ==
    IF correlation_id = "" THEN <<>>
    ELSE IF ~redisUp THEN <<>>
    ELSE IF store[_get_key(correlation_id)] # <<>>
         THEN <<from_dict(store[_get_key(correlation_id)][1])>>
         ELSE <<>>

get_container_id(correlation_id) ==
    IF get_state(correlation_id) # <<>> THEN get_state(correlation_id)[1].container_id ELSE None

\* ------------------------------------------------------------ redis pipeline
\* a pipeline whose execute() ignores the WATCH
WatchErrorNever(w) == FALSE

\* a pipeline whose execute() always finds the key changed
WatchErrorAlways(w) == TRUE

\* pipe.execute() after WATCH: the queued SET is applied unless the watched key
\* was written since pipe.watch(key); otherwise redis.WatchError is raised
WatchErrorRaised(w) == w = "dirty"

\* every write of a key marks the pipelines watching it
Touch(key) ==
    [q \in Procs |->
        IF watch[q] = "clean" /\ _get_key(loc[q].correlation_id) = key
        THEN "dirty" ELSE watch[q]]

\* ------------------------------------------------------------ worker locals
NoPre == [rec |-> <<>>, cst |-> "none"]

Loc0 ==
    [op |-> "none",              \* the top-level call
     correlation_id |-> "",
     task_name |-> "",
     command |-> "",
     now |-> 0,
     state |-> <<>>,             \* TaskState computed inside a WATCH loop
     container_id |-> None,      \* set_container_id's argument
     has_sandbox |-> FALSE,      \* set_sandbox_state's argument
     body |-> "none",            \* track_task: how task_func ended
     rv |-> <<>>,                \* value the last callee returned
     g_container_id |-> None,    \* get_container: container_id
     c_existing |-> None,        \* create_container: existing_container_id
     c_new |-> None,             \* create_container: container.id of the new container
     e_container |-> <<>>,       \* ensure_container: container
     e_container_id |-> None,    \* ensure_container: container_id
     x_container |-> <<>>,       \* exec_command: container
     s_container |-> <<>>,       \* stop_container / remove_container: container
     sw_keys |-> {},             \* cleanup: sessions the scan has yet to yield
     sw_out |-> <<>>,            \* cleanup_inactive_containers: inactive_containers
     sw_gone |-> {},             \* cleanup: sessions whose container it stopped and removed
     sw_seen |-> {},             \* cleanup: sessions it has examined
     sw_tried |-> {},            \* cleanup: sessions it called stop_container for
     seen |-> {},                \* what the runtime did to this call
     made |-> 0,                 \* containers this call created
     ran |-> 0,                  \* commands this call ran
     pre |-> NoPre]              \* record and container status when the call started

\* what a cleanup did, kept with its result
NoSweep == [now |-> 0, seen |-> {}, tried |-> {}, gone |-> {}]

SweepOf(l) == [now |-> l.now, seen |-> l.sw_seen, tried |-> l.sw_tried, gone |-> l.sw_gone]

NoRes == [op |-> "none", id |-> "", out |-> "none", val |-> <<>>,
          seen |-> {}, made |-> 0, ran |-> 0, pre |-> NoPre, sw |-> NoSweep]

\* status of the container the session record names
StoredStatus(correlation_id) ==
    IF get_container_id(correlation_id) = None THEN "none"
    ELSE containers[get_container_id(correlation_id)]

Snapshot(correlation_id) ==
    [rec |-> IF correlation_id = "" THEN <<>> ELSE store[_get_key(correlation_id)],
     cst |-> StoredStatus(correlation_id)]

\* ------------------------------------------------------------ control flow
\* where a callee's return resumes its caller
AfterReturn(site) ==
    CASE site = "E169" -> "en_got"
      [] site = "E189" -> "en_a_get"
      [] site = "E203" -> "en_b_get"
      [] site \in {"E208", "E214", "E221"} -> "en_ret_get"
      [] site = "X239" -> "ex_reload"
      [] site = "X253" -> "ex_get"
      [] site = "X271" -> "ex_nf_get"
      [] site = "C110" -> "cc_ret"
      [] site = "C86" -> "cc_run"
      [] site = "G143" -> "gc_none"
      [] site = "G150" -> "gc_none"
      [] site = "T309" -> "st_got"
      [] site = "R333" -> "rm_got"
      [] site = "S305" -> "sw_remove"
      [] site = "S307" -> "sw_append"
      [] site = "O270" -> "ot_delete"
      [] site = "K23" -> "tk_body"
      [] site = "K31" -> "tk_done"

\* the except clauses without the try of lines 303-310
HandlerOutsideSweep(site, e) ==
    CASE site = "E189" -> [kind |-> "goto", pc |-> "en_b_remove"]
      [] site = "E203" /\ e = "NotFound" -> [kind |-> "call", pc |-> "cc_entry", site |-> "E208"]
      [] site = "E203" /\ e # "NotFound" -> [kind |-> "call", pc |-> "cc_entry", site |-> "E214"]
      [] site \in {"X239", "X253"} /\ e = "NotFound" ->
            [kind |-> "call", pc |-> "cc_entry", site |-> "X271"]
      [] site \in {"X239", "X253"} /\ e # "NotFound" -> [kind |-> "goto", pc |-> "ex_fail"]
      [] site = "O270" -> [kind |-> "goto", pc |-> "ot_delete"]
      [] OTHER -> [kind |-> "propagate"]

\* the except clause that catches exception e raised by the callee at a call site:
\* a label of the caller, a call of create_container from the handler, or none
Handler(site, e) ==
    CASE site = "E189" -> [kind |-> "goto", pc |-> "en_b_remove"]
      [] site = "E203" /\ e = "NotFound" -> [kind |-> "call", pc |-> "cc_entry", site |-> "E208"]
      [] site = "E203" /\ e # "NotFound" -> [kind |-> "call", pc |-> "cc_entry", site |-> "E214"]
      [] site \in {"X239", "X253"} /\ e = "NotFound" ->
            [kind |-> "call", pc |-> "cc_entry", site |-> "X271"]
      [] site \in {"X239", "X253"} /\ e # "NotFound" -> [kind |-> "goto", pc |-> "ex_fail"]
      [] site \in {"S305", "S307"} -> [kind |-> "goto", pc |-> "sw_except"]
      [] site = "O270" -> [kind |-> "goto", pc |-> "ot_delete"]
      [] OTHER -> [kind |-> "propagate"]

\* unwinding the stack to the innermost handler
RECURSIVE Unwind(_, _)
Unwind(stack, e) ==
    IF stack = <<>> THEN [kind |-> "top"]
    ELSE LET h == Handler(Head(stack), e) IN
         IF h.kind = "propagate" THEN Unwind(Tail(stack), e)
         ELSE IF h.kind = "goto" THEN [kind |-> "resume", pc |-> h.pc, stk |-> Tail(stack)]
         ELSE [kind |-> "resume", pc |-> h.pc, stk |-> <<h.site>> \o Tail(stack)]

\* the top-level call of worker p ends: a returned value or a raised exception
Finish(p, out, val, l) ==
    /\ pc' = [pc EXCEPT ![p] = "idle"]
    /\ stk' = [stk EXCEPT ![p] = <<>>]
    /\ loc' = [loc EXCEPT ![p] = Loc0]
    /\ res' = [res EXCEPT ![p] = [op |-> l.op, id |-> l.correlation_id, out |-> out,
                                   val |-> val, seen |-> l.seen, made |-> l.made,
                                   ran |-> l.ran, pre |-> l.pre,
                                   sw |-> IF l.sw_seen = {} THEN NoSweep ELSE SweepOf(l)]]
    /\ UNCHANGED prev

Goto(p, label, l) ==
    /\ pc' = [pc EXCEPT ![p] = label]
    /\ loc' = [loc EXCEPT ![p] = l]
    /\ UNCHANGED <<stk, res, prev>>

CallFn(p, entry, site, l) ==
    /\ pc' = [pc EXCEPT ![p] = entry]
    /\ stk' = [stk EXCEPT ![p] = <<site>> \o @]
    /\ loc' = [loc EXCEPT ![p] = l]
    /\ UNCHANGED <<res, prev>>

ReturnFn(p, v, l) ==
    IF stk[p] = <<>>
    THEN Finish(p, "ret", v, l)
    ELSE /\ pc' = [pc EXCEPT ![p] = AfterReturn(Head(stk[p]))]
         /\ stk' = [stk EXCEPT ![p] = Tail(@)]
         /\ loc' = [loc EXCEPT ![p] = [l EXCEPT !.rv = v]]
         /\ UNCHANGED <<res, prev>>

RaiseFn(p, e, l) ==
    LET u == Unwind(stk[p], e) IN
    IF u.kind = "top"
    THEN Finish(p, e, <<>>, l)
    ELSE /\ pc' = [pc EXCEPT ![p] = u.pc]
         /\ stk' = [stk EXCEPT ![p] = u.stk]
         /\ loc' = [loc EXCEPT ![p] = l]
         /\ UNCHANGED <<res, prev>>

\* the dispatch layer hands a call to the lowest-numbered idle worker
\* (workers are interchangeable)
Dispatch(p) ==
    /\ pc[p] = "idle"
    /\ \A q \in Procs : q < p => pc[q] # "idle"

\* the locals of a call that starts
StartLocals(op, correlation_id, task_name, command, now) ==
    [Loc0 EXCEPT !.op = op,
                 !.correlation_id = correlation_id,
                 !.task_name = task_name,
                 !.command = command,
                 !.now = now,
                 !.pre = Snapshot(correlation_id)]

\* what a worker keeps of its last call when it starts the next one
Remember(p, op, correlation_id) ==
    IF res[p].op = op /\ res[p].id = correlation_id THEN res[p] ELSE NoRes

\* worker p starts a top-level call at label entry
Start(p, entry, l) ==
    /\ Dispatch(p)
    /\ nStarted' = nStarted + 1
    /\ pc' = [pc EXCEPT ![p] = entry]
    /\ loc' = [loc EXCEPT ![p] = l]
    /\ res' = [res EXCEPT ![p] = NoRes]
    /\ prev' = [prev EXCEPT ![p] = Remember(p, l.op, l.correlation_id)]
    /\ UNCHANGED <<store, clock, stk, watch, hist, dockerAvailable, redisUp, daemonUp, runtime, nEnv>>

\* worker p's top-level call ends in its first statement
Immediately(p, out, val, l) ==
    /\ Dispatch(p)
    /\ nStarted' = nStarted + 1
    /\ res' = [res EXCEPT ![p] = [op |-> l.op, id |-> l.correlation_id, out |-> out,
                                   val |-> val, seen |-> l.seen, made |-> l.made,
                                   ran |-> l.ran, pre |-> l.pre,
                                   sw |-> IF l.sw_seen = {} THEN NoSweep ELSE SweepOf(l)]]
    /\ prev' = [prev EXCEPT ![p] = Remember(p, l.op, l.correlation_id)]
    /\ UNCHANGED <<store, clock, pc, stk, loc, watch, hist, dockerAvailable, redisUp, daemonUp,
                   runtime, nEnv>>

AllIdle == \A p \in Procs : pc[p] = "idle"

\* a fresh deployment: an empty store and a runtime without containers or image
Init ==
    /\ store = [k \in Keys |-> <<>>]
    /\ clock = 1
    /\ pc = [p \in Procs |-> "idle"]
    /\ stk = [p \in Procs |-> <<>>]
    /\ loc = [p \in Procs |-> Loc0]
    /\ watch = [p \in Procs |-> "none"]
    /\ res = [p \in Procs |-> NoRes]
    /\ prev = [p \in Procs |-> NoRes]
    /\ nStarted = 0
    /\ nReg = [i \in SessionIds |-> 0]
    /\ nFin = [i \in SessionIds |-> 0]
    /\ exceeded = [i \in SessionIds |-> FALSE]
    /\ dockerAvailable \in BOOLEAN
    /\ daemonUp = dockerAvailable
    /\ containers = [c \in Cids |-> "absent"]
    /\ nextCid = 1
    /\ image = FALSE
    /\ redisUp = TRUE
    /\ nEnv = 0

\* a deployment whose redis server may be out of reach; an earlier process may
\* have left the record of s1
InitOutage ==
    /\ redisUp \in BOOLEAN
    /\ store \in {[k \in Keys |-> <<>>],
                  [k \in Keys |-> IF k = _get_key("s1")
                                  THEN <<to_dict(ContainerNew("s1", 1, 1))>> ELSE <<>>]}
    /\ clock = 1
    /\ pc = [p \in Procs |-> "idle"]
    /\ stk = [p \in Procs |-> <<>>]
    /\ loc = [p \in Procs |-> Loc0]
    /\ watch = [p \in Procs |-> "none"]
    /\ res = [p \in Procs |-> NoRes]
    /\ prev = [p \in Procs |-> NoRes]
    /\ nStarted = 0
    /\ nReg = [i \in SessionIds |-> 0]
    /\ nFin = [i \in SessionIds |-> 0]
    /\ exceeded = [i \in SessionIds |-> FALSE]
    /\ dockerAvailable = TRUE
    /\ daemonUp = TRUE
    /\ containers = [c \in Cids |-> IF c = 1 THEN "running" ELSE "absent"]
    /\ nextCid = 2
    /\ image = TRUE
    /\ nEnv = 0

\* redis and docker outlive the worker process: a process that starts after an
\* earlier one ran create_container("s1") finds the record and the container
InitProvisioned ==
    /\ store = [k \in Keys |-> IF k = _get_key("s1")
                               THEN <<to_dict(ContainerNew("s1", 1, 1))>> ELSE <<>>]
    /\ clock = 1
    /\ pc = [p \in Procs |-> "idle"]
    /\ stk = [p \in Procs |-> <<>>]
    /\ loc = [p \in Procs |-> Loc0]
    /\ watch = [p \in Procs |-> "none"]
    /\ res = [p \in Procs |-> NoRes]
    /\ prev = [p \in Procs |-> NoRes]
    /\ nStarted = 0
    /\ nReg = [i \in SessionIds |-> 0]
    /\ nFin = [i \in SessionIds |-> 0]
    /\ exceeded = [i \in SessionIds |-> FALSE]
    /\ dockerAvailable = TRUE
    /\ daemonUp = TRUE
    /\ containers = [c \in Cids |-> IF c = 1 THEN "running" ELSE "absent"]
    /\ nextCid = 2
    /\ image = TRUE
    /\ redisUp = TRUE
    /\ nEnv = 0

\* records an earlier process left: create_container(i) made container c; with
\* n = 1 a task registered afterwards is still running
Provisioned(i, c, n) ==
    IF n = 0 THEN ContainerNew(i, c, 1)
    ELSE RegisterExisting(ContainerNew(i, c, 1), 1, "build")

\* the periodic cleanup finds two provisioned sessions: s1, in use or not, whose
\* container may be gone, and s2, unused; some time has passed since
InitSweep ==
    /\ \E n \in {0, 1} :
          /\ store = [k \in Keys |->
                        IF k = _get_key("s1") THEN <<to_dict(Provisioned("s1", 1, n))>>
                        ELSE IF k = _get_key("s2") THEN <<to_dict(Provisioned("s2", 2, 0))>>
                        ELSE <<>>]
          /\ nReg = [i \in SessionIds |-> n]
    /\ clock \in 1..MaxClock
    /\ pc = [p \in Procs |-> "idle"]
    /\ stk = [p \in Procs |-> <<>>]
    /\ loc = [p \in Procs |-> Loc0]
    /\ watch = [p \in Procs |-> "none"]
    /\ res = [p \in Procs |-> NoRes]
    /\ prev = [p \in Procs |-> NoRes]
    /\ nStarted = 0
    /\ nFin = [i \in SessionIds |-> 0]
    /\ exceeded = [i \in SessionIds |-> FALSE]
    /\ dockerAvailable \in BOOLEAN
    /\ daemonUp \in {dockerAvailable, FALSE}
    /\ \E st \in {"running", "exited", "absent"} :
          containers = [c \in Cids |-> IF c = 1 THEN st
                                       ELSE IF c = 2 THEN "running" ELSE "absent"]
    /\ nextCid = 3
    /\ image = TRUE
    /\ redisUp = TRUE
    /\ nEnv = 0

\* ---------------------------------------------- get_state, get_container_id
\* a caller's get_state(correlation_id), lines 165-182
call_get_state(p, correlation_id) ==
    Immediately(p, "ret", get_state(correlation_id),
                StartLocals("get_state", correlation_id, "", "", 0))

\* a caller's get_container_id(correlation_id), lines 230-243
call_get_container_id(p, correlation_id) ==
    Immediately(p, "ret", <<get_container_id(correlation_id)>>,
                StartLocals("get_container_id", correlation_id, "", "", 0))

\* ------------------------------------------------------------ register_task
\* lines 70-76
register_task(p, correlation_id, task_name) ==
    LET l == StartLocals("register_task", correlation_id, task_name, "", clock) IN
    IF correlation_id = ""
    THEN Immediately(p, "ValueError", <<>>, l)
    ELSE Start(p, "rt_watch", l)

\* line 83
rt_watch(p) ==
    /\ pc[p] = "rt_watch"
    /\ IF ~redisUp
       THEN /\ RaiseFn(p, "ConnectionError", loc[p])
            /\ UNCHANGED watch
       ELSE /\ watch' = [watch EXCEPT ![p] = "clean"]
            /\ Goto(p, "rt_get", loc[p])
    /\ UNCHANGED <<store, clock, nStarted, hist, dockerAvailable, redisUp, daemonUp, runtime, nEnv>>

\* lines 86-102
rt_get(p) ==
    /\ pc[p] = "rt_get"
    /\ LET data == store[_get_key(loc[p].correlation_id)]
           state == IF data # <<>>
                    THEN RegisterExisting(from_dict(data[1]), loc[p].now, loc[p].task_name)
                    ELSE RegisterNew(loc[p].correlation_id, loc[p].now, loc[p].task_name)
       IN  Goto(p, "rt_exec", [loc[p] EXCEPT !.state = <<state>>])
    /\ UNCHANGED <<store, clock, watch, nStarted, hist, dockerAvailable, redisUp, daemonUp, runtime, nEnv>>

\* lines 105-112
rt_exec(p) ==
    /\ pc[p] = "rt_exec"
    /\ IF WatchErrorRaised(watch[p])
       THEN /\ watch' = [watch EXCEPT ![p] = "none"]
            /\ Goto(p, "rt_watch", loc[p])
            /\ UNCHANGED <<store, nReg>>
       ELSE LET key == _get_key(loc[p].correlation_id) IN
            /\ store' = [store EXCEPT ![key] = <<to_dict(loc[p].state[1])>>]
            /\ watch' = [Touch(key) EXCEPT ![p] = "none"]
            /\ nReg' = [nReg EXCEPT ![loc[p].correlation_id] = @ + 1]
            /\ ReturnFn(p, <<loc[p].state[1].running_task_count>>, loc[p])
    /\ UNCHANGED <<clock, nStarted, nFin, exceeded, dockerAvailable, redisUp, daemonUp, runtime, nEnv>>

\* -------------------------------------------------------------- finish_task
\* lines 114-120
finish_task(p, correlation_id) ==
    LET l == StartLocals("finish_task", correlation_id, "", "", clock) IN
    IF correlation_id = ""
    THEN Immediately(p, "ret", <<>>, l)
    ELSE Start(p, "ft_watch", l)

\* line 125
ft_watch(p) ==
    /\ pc[p] = "ft_watch"
    /\ IF ~redisUp
       THEN /\ RaiseFn(p, "ConnectionError", loc[p])
            /\ UNCHANGED watch
       ELSE /\ watch' = [watch EXCEPT ![p] = "clean"]
            /\ Goto(p, "ft_get", loc[p])
    /\ UNCHANGED <<store, clock, nStarted, hist, dockerAvailable, redisUp, daemonUp, runtime, nEnv>>

\* a finish_task call on session i completes
FinishCounted(i) ==
    /\ nFin' = [nFin EXCEPT ![i] = @ + 1]
    /\ exceeded' = [exceeded EXCEPT ![i] = @ \/ nFin[i] + 1 > nReg[i]]

\* lines 126-131 and 137
ft_get(p) ==
    /\ pc[p] = "ft_get"
    /\ LET data == store[_get_key(loc[p].correlation_id)] IN
       IF data # <<>>
       THEN /\ Goto(p, "ft_exec",
                    [loc[p] EXCEPT !.state = <<FinishExisting(from_dict(data[1]), loc[p].now)>>])
            /\ UNCHANGED <<watch, nFin, exceeded>>
       ELSE /\ watch' = [watch EXCEPT ![p] = "none"]
            /\ FinishCounted(loc[p].correlation_id)
            /\ ReturnFn(p, <<>>, loc[p])
    /\ UNCHANGED <<store, clock, nStarted, nReg, dockerAvailable, redisUp, daemonUp, runtime, nEnv>>

\* lines 133-139
ft_exec(p) ==
    /\ pc[p] = "ft_exec"
    /\ IF WatchErrorRaised(watch[p])
       THEN /\ watch' = [watch EXCEPT ![p] = "none"]
            /\ Goto(p, "ft_watch", loc[p])
            /\ UNCHANGED <<store, nFin, exceeded>>
       ELSE LET key == _get_key(loc[p].correlation_id) IN
            /\ store' = [store EXCEPT ![key] = <<to_dict(loc[p].state[1])>>]
            /\ watch' = [Touch(key) EXCEPT ![p] = "none"]
            /\ FinishCounted(loc[p].correlation_id)
            /\ ReturnFn(p, <<loc[p].state[1].running_task_count>>, loc[p])
    /\ UNCHANGED <<clock, nStarted, nReg, dockerAvailable, redisUp, daemonUp, runtime, nEnv>>

\* -------------------------------------------------------- set_sandbox_state
\* lines 141-146
set_sandbox_state(p, correlation_id, has_sandbox) ==
    LET l == [StartLocals("set_sandbox_state", correlation_id, "", "", 0)
                 EXCEPT !.has_sandbox = has_sandbox] IN
    IF correlation_id = ""
    THEN Immediately(p, "ret", <<>>, l)
    ELSE Start(p, "sb_watch", l)

\* line 151
sb_watch(p) ==
    /\ pc[p] = "sb_watch"
    /\ IF ~redisUp
       THEN /\ RaiseFn(p, "ConnectionError", loc[p])
            /\ UNCHANGED watch
       ELSE /\ watch' = [watch EXCEPT ![p] = "clean"]
            /\ Goto(p, "sb_get", loc[p])
    /\ UNCHANGED <<store, clock, nStarted, hist, dockerAvailable, redisUp, daemonUp, runtime, nEnv>>

\* the record with has_sandbox set: lines 154-155
SandboxExisting(state, has_sandbox) == [state EXCEPT !.has_sandbox = has_sandbox]

\* lines 152-155 and 161
sb_get(p) ==
    /\ pc[p] = "sb_get"
    /\ LET data == store[_get_key(loc[p].correlation_id)] IN
       IF data # <<>>
       THEN /\ Goto(p, "sb_exec",
                    [loc[p] EXCEPT !.state =
                        <<SandboxExisting(from_dict(data[1]), loc[p].has_sandbox)>>])
            /\ UNCHANGED watch
       ELSE /\ watch' = [watch EXCEPT ![p] = "none"]
            /\ ReturnFn(p, <<>>, loc[p])
    /\ UNCHANGED <<store, clock, nStarted, hist, dockerAvailable, redisUp, daemonUp, runtime, nEnv>>

\* lines 157-163
sb_exec(p) ==
    /\ pc[p] = "sb_exec"
    /\ IF WatchErrorRaised(watch[p])
       THEN /\ watch' = [watch EXCEPT ![p] = "none"]
            /\ Goto(p, "sb_watch", loc[p])
            /\ UNCHANGED store
       ELSE LET key == _get_key(loc[p].correlation_id) IN
            /\ store' = [store EXCEPT ![key] = <<to_dict(loc[p].state[1])>>]
            /\ watch' = [Touch(key) EXCEPT ![p] = "none"]
            /\ ReturnFn(p, loc[p].state, loc[p])
    /\ UNCHANGED <<clock, nStarted, hist, dockerAvailable, redisUp, daemonUp, runtime, nEnv>>

\* --------------------------------------------------------- set_container_id
\* a caller's set_container_id(correlation_id, container_id), line 184
set_container_id(p, correlation_id, container_id) ==
    Start(p, "sc_entry", [StartLocals("set_container_id", correlation_id, "", "", 0)
                             EXCEPT !.container_id = container_id])

\* lines 186-191
sc_entry(p) ==
    /\ pc[p] = "sc_entry"
    /\ IF InvalidParameters(loc[p].correlation_id, loc[p].container_id)
       THEN ReturnFn(p, <<>>, loc[p])
       ELSE Goto(p, "sc_watch", [loc[p] EXCEPT !.now = clock])
    /\ UNCHANGED <<store, clock, watch, nStarted, hist, dockerAvailable, redisUp, daemonUp, runtime, nEnv>>

\* line 197
sc_watch(p) ==
    /\ pc[p] = "sc_watch"
    /\ IF ~redisUp
       THEN /\ RaiseFn(p, "ConnectionError", loc[p])
            /\ UNCHANGED watch
       ELSE /\ watch' = [watch EXCEPT ![p] = "clean"]
            /\ Goto(p, "sc_get", loc[p])
    /\ UNCHANGED <<store, clock, nStarted, hist, dockerAvailable, redisUp, daemonUp, runtime, nEnv>>

\* lines 198-202 and 209-218
sc_get(p) ==
    /\ pc[p] = "sc_get"
    /\ LET data == store[_get_key(loc[p].correlation_id)]
           state == IF data # <<>>
                    THEN ContainerExisting(from_dict(data[1]), loc[p].container_id, loc[p].now)
                    ELSE ContainerNew(loc[p].correlation_id, loc[p].container_id, loc[p].now)
       IN  Goto(p, "sc_exec", [loc[p] EXCEPT !.state = <<state>>])
    /\ UNCHANGED <<store, clock, watch, nStarted, hist, dockerAvailable, redisUp, daemonUp, runtime, nEnv>>

\* lines 204-208 and 219-225
sc_exec(p) ==
    /\ pc[p] = "sc_exec"
    /\ IF WatchErrorRaised(watch[p])
       THEN /\ watch' = [watch EXCEPT ![p] = "none"]
            /\ Goto(p, "sc_watch", loc[p])
            /\ UNCHANGED store
       ELSE LET key == _get_key(loc[p].correlation_id) IN
            /\ store' = [store EXCEPT ![key] = <<to_dict(loc[p].state[1])>>]
            /\ watch' = [Touch(key) EXCEPT ![p] = "none"]
            /\ ReturnFn(p, <<loc[p].state[1].running_task_count>>, loc[p])
    /\ UNCHANGED <<clock, nStarted, hist, dockerAvailable, redisUp, daemonUp, runtime, nEnv>>


\* ------------------------------------------------------------ the runtime
\* a runtime that has lost every container
ClientLost(c) ==
    IF ~daemonUp THEN "Error" ELSE "NotFound"

\* what a docker client call on container c answers: the daemon is unreachable,
\* the container does not exist (docker.errors.NotFound), or the call goes through
ClientOutcome(c) ==
    IF ~daemonUp THEN "Error"
    ELSE IF containers[c] = "absent" THEN "NotFound"
    ELSE "ok"

\* what the call observed, for the record of the top-level call
Observe(l, o) ==
    IF o = "Error" THEN [l EXCEPT !.seen = @ \cup {"down"}] ELSE l

Handle(c) == [id |-> c, status |-> containers[c]]

\* container.start(): on a stopped container it starts it, raises, or returns
\* while the container stays stopped
StartOutcomes(c) ==
    IF ClientOutcome(c) # "ok" THEN {ClientOutcome(c)}
    ELSE IF containers[c] = "running" THEN {"ok"}
    ELSE {"ok", "start_failed", "start_noop"}

\* container.remove(force=True): removes the container or raises
RemoveOutcomes(c) ==
    IF ClientOutcome(c) # "ok" THEN {ClientOutcome(c)}
    ELSE {"ok", "remove_failed"}

\* the positions at which a worker's next step is a docker client call
RuntimeCalls ==
    {"gc_get", "cc_get", "cc_start", "cc_image", "build_image", "cc_run",
     "en_reload", "en_start", "en_reload2", "en_a_remove", "en_a_get", "en_b_remove",
     "en_b_get", "en_ret_get", "ex_reload", "ex_start", "ex_reload2", "ex_get",
     "ex_run", "ex_nf_get", "ex_nf_run", "st_stop", "rm_stop", "rm_remove"}

\* the runtime changes behind the orchestrator's back, which a worker can notice
\* only at its next docker client call; what had just been
\* returned is no longer a description of the present
Disturb(kinds) ==
    /\ nEnv < MaxEnv
    /\ AllIdle \/ \E p \in Procs : pc[p] \in RuntimeCalls
    /\ nEnv' = nEnv + 1
    /\ res' = [p \in Procs |-> NoRes]
    /\ prev' = [p \in Procs |-> NoRes]
    /\ loc' = [p \in Procs |->
                 IF pc[p] # "idle" THEN [loc[p] EXCEPT !.seen = @ \cup kinds] ELSE loc[p]]
    /\ UNCHANGED <<store, clock, pc, stk, watch, nStarted, hist, dockerAvailable, redisUp,
                   nextCid, image>>

ContainerStops(c) ==
    /\ containers[c] = "running"
    /\ containers' = [containers EXCEPT ![c] = "exited"]
    /\ Disturb({"ext"})
    /\ UNCHANGED daemonUp

ContainerVanishes(c) ==
    /\ containers[c] # "absent"
    /\ containers' = [containers EXCEPT ![c] = "absent"]
    /\ Disturb({"ext"})
    /\ UNCHANGED daemonUp

DaemonGoesDown ==
    /\ daemonUp
    /\ daemonUp' = FALSE
    /\ Disturb({})
    /\ UNCHANGED containers

DaemonComesBack ==
    /\ ~daemonUp
    /\ daemonUp' = TRUE
    /\ Disturb({})
    /\ UNCHANGED containers

\* ------------------------------------------------------------ get_container
get_container(p, correlation_id) ==
    Start(p, "gc_entry", StartLocals("get_container", correlation_id, "", "", 0))

\* lines 128-133
gc_entry(p) ==
    /\ pc[p] = "gc_entry"
    /\ IF ~dockerAvailable
       THEN RaiseFn(p, "RuntimeError", loc[p])
       ELSE LET container_id == get_container_id(loc[p].correlation_id) IN
            IF container_id = None
            THEN ReturnFn(p, <<>>, loc[p])
            ELSE Goto(p, "gc_get", [loc[p] EXCEPT !.g_container_id = container_id])
    /\ UNCHANGED <<store, clock, watch, nStarted, hist, dockerAvailable, redisUp, daemonUp, runtime, nEnv>>

\* line 148, for an error that is not docker.errors.NotFound: whether the error
\* is an APIError whose text (status, request URL with the container id in it,
\* explanation) contains "404" or "No such container"
LooksNotFound == BOOLEAN

\* lines 135-154
gc_get(p) ==
    /\ pc[p] = "gc_get"
    /\ LET c == loc[p].g_container_id
           o == ClientOutcome(c)
           l == Observe([loc[p] EXCEPT !.g_container_id = None], o)
       IN  CASE o = "ok" -> ReturnFn(p, <<Handle(c)>>, l)
             [] o = "NotFound" -> CallFn(p, "sc_entry", "G143", [l EXCEPT !.container_id = None])
             [] o = "Error" ->
                    \E looks \in LooksNotFound :
                       IF looks
                       THEN CallFn(p, "sc_entry", "G150", [l EXCEPT !.container_id = None])
                       ELSE ReturnFn(p, <<>>, l)
    /\ UNCHANGED <<store, clock, watch, nStarted, hist, dockerAvailable, redisUp, daemonUp, runtime, nEnv>>

\* line 144
gc_none(p) ==
    /\ pc[p] = "gc_none"
    /\ ReturnFn(p, <<>>, loc[p])
    /\ UNCHANGED <<store, clock, watch, nStarted, hist, dockerAvailable, redisUp, daemonUp, runtime, nEnv>>

\* --------------------------------------------------------- create_container
create_container(p, correlation_id) ==
    Start(p, "cc_entry", StartLocals("create_container", correlation_id, "", "", 0))

\* lines 59-63
cc_entry(p) ==
    /\ pc[p] = "cc_entry"
    /\ IF ~dockerAvailable
       THEN RaiseFn(p, "RuntimeError", loc[p])
       ELSE LET existing_container_id == get_container_id(loc[p].correlation_id) IN
            IF existing_container_id # None
            THEN Goto(p, "cc_get", [loc[p] EXCEPT !.c_existing = existing_container_id])
            ELSE Goto(p, "cc_image", loc[p])
    /\ UNCHANGED <<store, clock, watch, nStarted, hist, dockerAvailable, redisUp, daemonUp, runtime, nEnv>>

\* lines 66-71 and 74-80
cc_get(p) ==
    /\ pc[p] = "cc_get"
    /\ LET c == loc[p].c_existing
           o == ClientOutcome(c)
           l == Observe(loc[p], o)
       IN  CASE o = "ok" /\ containers[c] = "running" ->
                    ReturnFn(p, <<c>>, [l EXCEPT !.c_existing = None])
             [] o = "ok" /\ containers[c] # "running" -> Goto(p, "cc_start", l)
             [] o = "NotFound" -> Goto(p, "cc_image", [l EXCEPT !.c_existing = None])
             [] o = "Error" -> RaiseFn(p, "Error", [l EXCEPT !.c_existing = None])
    /\ UNCHANGED <<store, clock, watch, nStarted, hist, dockerAvailable, redisUp, daemonUp, runtime, nEnv>>

\* lines 72-80
cc_start(p) ==
    /\ pc[p] = "cc_start"
    /\ LET c == loc[p].c_existing IN
       \E o \in StartOutcomes(c) :
          LET l == Observe([loc[p] EXCEPT !.c_existing = None], o) IN
          CASE o = "ok" ->
                  /\ containers' = [containers EXCEPT ![c] = "running"]
                  /\ ReturnFn(p, <<c>>, l)
            [] o = "start_noop" ->
                  /\ UNCHANGED containers
                  /\ ReturnFn(p, <<c>>, [l EXCEPT !.seen = @ \cup {"start_noop"}])
            [] o = "start_failed" ->
                  /\ UNCHANGED containers
                  /\ RaiseFn(p, "Error", [l EXCEPT !.seen = @ \cup {"start_failed"}])
            [] o = "NotFound" ->
                  /\ UNCHANGED containers
                  /\ Goto(p, "cc_image", l)
            [] o = "Error" ->
                  /\ UNCHANGED containers
                  /\ RaiseFn(p, "Error", l)
    /\ UNCHANGED <<store, clock, watch, nStarted, hist, dockerAvailable, redisUp, daemonUp,
                   nextCid, image, nEnv>>

\* lines 83-89
cc_image(p) ==
    /\ pc[p] = "cc_image"
    /\ IF ~daemonUp THEN RaiseFn(p, "Error", Observe(loc[p], "Error"))
       ELSE IF image THEN Goto(p, "cc_run", loc[p])
       ELSE CallFn(p, "build_image", "C86", loc[p])
    /\ UNCHANGED <<store, clock, watch, nStarted, hist, dockerAvailable, redisUp, daemonUp, runtime, nEnv>>

\* a caller's build_image(), line 34 (celery_app.py line 9 calls it at import)
build_image_call(p) ==
    Start(p, "build_image", StartLocals("build_image", "", "", "", 0))

\* lines 34-47, called from line 86
build_image(p) ==
    /\ pc[p] = "build_image"
    /\ IF ~dockerAvailable
       THEN /\ RaiseFn(p, "RuntimeError", loc[p])
            /\ UNCHANGED image
       ELSE IF ~daemonUp
       THEN /\ RaiseFn(p, "Error", Observe(loc[p], "Error"))
            /\ UNCHANGED image
       ELSE /\ image' = TRUE
            /\ ReturnFn(p, <<>>, loc[p])
    /\ UNCHANGED <<store, clock, watch, nStarted, hist, dockerAvailable, redisUp, daemonUp,
                   containers, nextCid, nEnv>>

\* lines 92-110 and 114-116
cc_run(p) ==
    /\ pc[p] = "cc_run"
    /\ IF ~daemonUp
       THEN /\ RaiseFn(p, "Error", Observe(loc[p], "Error"))
            /\ UNCHANGED <<containers, nextCid>>
       ELSE /\ nextCid <= MaxContainers
            /\ containers' = [containers EXCEPT ![nextCid] = "running"]
            /\ nextCid' = nextCid + 1
            /\ CallFn(p, "sc_entry", "C110",
                      [loc[p] EXCEPT !.c_new = nextCid, !.container_id = nextCid,
                                     !.made = @ + 1])
    /\ UNCHANGED <<store, clock, watch, nStarted, hist, dockerAvailable, redisUp, daemonUp, image, nEnv>>

\* line 113
cc_ret(p) ==
    /\ pc[p] = "cc_ret"
    /\ ReturnFn(p, <<loc[p].c_new>>, [loc[p] EXCEPT !.c_new = None, !.container_id = None,
                                                  !.state = <<>>, !.now = 0])
    /\ UNCHANGED <<store, clock, watch, nStarted, hist, dockerAvailable, redisUp, daemonUp, runtime, nEnv>>

\* --------------------------------------------------------- ensure_container
ensure_container(p, correlation_id) ==
    Start(p, "en_entry", StartLocals("ensure_container", correlation_id, "", "", 0))

\* lines 167-169
en_entry(p) ==
    /\ pc[p] = "en_entry"
    /\ IF ~dockerAvailable
       THEN RaiseFn(p, "RuntimeError", loc[p])
       ELSE CallFn(p, "gc_entry", "E169", loc[p])
    /\ UNCHANGED <<store, clock, watch, nStarted, hist, dockerAvailable, redisUp, daemonUp, runtime, nEnv>>

\* lines 170 and 219-221
en_got(p) ==
    /\ pc[p] = "en_got"
    /\ IF loc[p].rv # <<>>
       THEN Goto(p, "en_reload", [loc[p] EXCEPT !.e_container = loc[p].rv, !.rv = <<>>])
       ELSE CallFn(p, "cc_entry", "E221", [loc[p] EXCEPT !.rv = <<>>])
    /\ UNCHANGED <<store, clock, watch, nStarted, hist, dockerAvailable, redisUp, daemonUp, runtime, nEnv>>

\* lines 173-176, 217 and the handlers of lines 205-214
en_reload(p) ==
    /\ pc[p] = "en_reload"
    /\ LET c == loc[p].e_container[1].id
           o == ClientOutcome(c)
           l == Observe(loc[p], o)
       IN  CASE o = "ok" /\ containers[c] = "running" ->
                    ReturnFn(p, <<Handle(c)>>, [l EXCEPT !.e_container = <<>>])
             [] o = "ok" /\ containers[c] # "running" ->
                    Goto(p, "en_start", [l EXCEPT !.e_container = <<Handle(c)>>])
             [] o = "NotFound" -> CallFn(p, "cc_entry", "E208", [l EXCEPT !.e_container = <<>>])
             [] o = "Error" -> CallFn(p, "cc_entry", "E214", [l EXCEPT !.e_container = <<>>])
    /\ UNCHANGED <<store, clock, watch, nStarted, hist, dockerAvailable, redisUp, daemonUp, runtime, nEnv>>

\* line 178 and the handler of line 193
en_start(p) ==
    /\ pc[p] = "en_start"
    /\ LET c == loc[p].e_container[1].id IN
       \E o \in StartOutcomes(c) :
          LET l == Observe(loc[p], o) IN
          CASE o = "ok" ->
                  /\ containers' = [containers EXCEPT ![c] = "running"]
                  /\ Goto(p, "en_reload2", l)
            [] o = "start_noop" ->
                  /\ UNCHANGED containers
                  /\ Goto(p, "en_reload2", [l EXCEPT !.seen = @ \cup {"start_noop"}])
            [] o = "start_failed" ->
                  /\ UNCHANGED containers
                  /\ Goto(p, "en_b_remove", [l EXCEPT !.seen = @ \cup {"start_failed"}])
            [] o \in {"NotFound", "Error"} ->
                  /\ UNCHANGED containers
                  /\ Goto(p, "en_b_remove", l)
    /\ UNCHANGED <<store, clock, watch, nStarted, hist, dockerAvailable, redisUp, daemonUp,
                   nextCid, image, nEnv>>

\* lines 180-182, 191-193 and 217
en_reload2(p) ==
    /\ pc[p] = "en_reload2"
    /\ LET c == loc[p].e_container[1].id
           o == ClientOutcome(c)
           l == Observe(loc[p], o)
       IN  CASE o = "ok" /\ containers[c] = "running" ->
                    ReturnFn(p, <<Handle(c)>>, [l EXCEPT !.e_container = <<>>])
             [] o = "ok" /\ containers[c] # "running" ->
                    Goto(p, "en_a_remove", [l EXCEPT !.e_container = <<Handle(c)>>])
             [] o \in {"NotFound", "Error"} -> Goto(p, "en_b_remove", l)
    /\ UNCHANGED <<store, clock, watch, nStarted, hist, dockerAvailable, redisUp, daemonUp, runtime, nEnv>>

\* container.remove(force=True) inside try/except, then create_container from site
RemoveThenCreate(p, site) ==
    LET c == loc[p].e_container[1].id IN
    \E o \in RemoveOutcomes(c) :
       LET l == Observe(loc[p], o) IN
       CASE o = "ok" ->
               /\ containers' = [containers EXCEPT ![c] = "absent"]
               /\ CallFn(p, "cc_entry", site, l)
         [] o = "remove_failed" ->
               /\ UNCHANGED containers
               /\ CallFn(p, "cc_entry", site, [l EXCEPT !.seen = @ \cup {"remove_failed"}])
         [] o \in {"NotFound", "Error"} ->
               /\ UNCHANGED containers
               /\ CallFn(p, "cc_entry", site, l)

\* lines 184-189
en_a_remove(p) ==
    /\ pc[p] = "en_a_remove"
    /\ RemoveThenCreate(p, "E189")
    /\ UNCHANGED <<store, clock, watch, nStarted, hist, dockerAvailable, redisUp, daemonUp,
                   nextCid, image, nEnv>>

\* line 190 and the handler of line 193
en_a_get(p) ==
    /\ pc[p] = "en_a_get"
    /\ LET c == loc[p].rv[1]
           o == ClientOutcome(c)
           l == Observe([loc[p] EXCEPT !.rv = <<>>], o)
       IN  CASE o = "ok" -> ReturnFn(p, <<Handle(c)>>, [l EXCEPT !.e_container = <<>>])
             [] o \in {"NotFound", "Error"} -> Goto(p, "en_b_remove", l)
    /\ UNCHANGED <<store, clock, watch, nStarted, hist, dockerAvailable, redisUp, daemonUp, runtime, nEnv>>

\* lines 198-203
en_b_remove(p) ==
    /\ pc[p] = "en_b_remove"
    /\ RemoveThenCreate(p, "E203")
    /\ UNCHANGED <<store, clock, watch, nStarted, hist, dockerAvailable, redisUp, daemonUp,
                   nextCid, image, nEnv>>

\* line 204 and the handlers of lines 205-214
en_b_get(p) ==
    /\ pc[p] = "en_b_get"
    /\ LET c == loc[p].rv[1]
           o == ClientOutcome(c)
           l == Observe([loc[p] EXCEPT !.rv = <<>>, !.e_container = <<>>], o)
       IN  CASE o = "ok" -> ReturnFn(p, <<Handle(c)>>, l)
             [] o = "NotFound" -> CallFn(p, "cc_entry", "E208", l)
             [] o = "Error" -> CallFn(p, "cc_entry", "E214", l)
    /\ UNCHANGED <<store, clock, watch, nStarted, hist, dockerAvailable, redisUp, daemonUp, runtime, nEnv>>

\* lines 209, 215 and 222
en_ret_get(p) ==
    /\ pc[p] = "en_ret_get"
    /\ LET c == loc[p].rv[1]
           o == ClientOutcome(c)
           l == Observe([loc[p] EXCEPT !.rv = <<>>, !.e_container = <<>>], o)
       IN  CASE o = "ok" -> ReturnFn(p, <<Handle(c)>>, l)
             [] o \in {"NotFound", "Error"} -> RaiseFn(p, o, l)
    /\ UNCHANGED <<store, clock, watch, nStarted, hist, dockerAvailable, redisUp, daemonUp, runtime, nEnv>>

\* ------------------------------------------------------------- exec_command
exec_command(p, correlation_id, command) ==
    Start(p, "ex_entry", StartLocals("exec_command", correlation_id, "", command, 0))

\* the exit code the shell reports for a command
ExitCode(command) == IF command = "true" THEN 0 ELSE 1

\* lines 259-266 and 278-285
Envelope(correlation_id, command, c) ==
    [exit_code |-> ExitCode(command), container_id |-> c, correlation_id |-> correlation_id,
     command |-> command, success |-> ExitCode(command) = 0]

\* lines 288-295
FailureEnvelope(correlation_id, command) ==
    [exit_code |-> 1, container_id |-> get_container_id(correlation_id),
     correlation_id |-> correlation_id, command |-> command, success |-> FALSE]

\* an exec_command whose availability check is left to ensure_container,
\* inside the try
ex_entry_unchecked(p) ==
    /\ pc[p] = "ex_entry"
    /\ CallFn(p, "en_entry", "X239", loc[p])
    /\ UNCHANGED <<store, clock, watch, nStarted, hist, dockerAvailable, redisUp, daemonUp, runtime, nEnv>>

\* lines 235-239
ex_entry(p) ==
    /\ pc[p] = "ex_entry"
    /\ IF ~dockerAvailable
       THEN RaiseFn(p, "RuntimeError", loc[p])
       ELSE CallFn(p, "en_entry", "X239", loc[p])
    /\ UNCHANGED <<store, clock, watch, nStarted, hist, dockerAvailable, redisUp, daemonUp, runtime, nEnv>>

\* lines 242-244 and the handlers of lines 267 and 286
ex_reload(p) ==
    /\ pc[p] = "ex_reload"
    /\ LET c == loc[p].rv[1].id
           o == ClientOutcome(c)
           l == Observe([loc[p] EXCEPT !.rv = <<>>], o)
       IN  CASE o = "ok" /\ containers[c] = "running" ->
                    Goto(p, "ex_run", [l EXCEPT !.x_container = <<Handle(c)>>])
             [] o = "ok" /\ containers[c] # "running" ->
                    Goto(p, "ex_start", [l EXCEPT !.x_container = <<Handle(c)>>])
             [] o = "NotFound" -> CallFn(p, "cc_entry", "X271", l)
             [] o = "Error" -> Goto(p, "ex_fail", l)
    /\ UNCHANGED <<store, clock, watch, nStarted, hist, dockerAvailable, redisUp, daemonUp, runtime, nEnv>>

\* line 246 and the handler of lines 249-253
ex_start(p) ==
    /\ pc[p] = "ex_start"
    /\ LET c == loc[p].x_container[1].id IN
       \E o \in StartOutcomes(c) :
          LET l == Observe(loc[p], o) IN
          CASE o = "ok" ->
                  /\ containers' = [containers EXCEPT ![c] = "running"]
                  /\ Goto(p, "ex_reload2", l)
            [] o = "start_noop" ->
                  /\ UNCHANGED containers
                  /\ Goto(p, "ex_reload2", [l EXCEPT !.seen = @ \cup {"start_noop"}])
            [] o = "start_failed" ->
                  /\ UNCHANGED containers
                  /\ CallFn(p, "cc_entry", "X253",
                            [l EXCEPT !.seen = @ \cup {"start_failed"}, !.x_container = <<>>])
            [] o \in {"NotFound", "Error"} ->
                  /\ UNCHANGED containers
                  /\ CallFn(p, "cc_entry", "X253", [l EXCEPT !.x_container = <<>>])
    /\ UNCHANGED <<store, clock, watch, nStarted, hist, dockerAvailable, redisUp, daemonUp,
                   nextCid, image, nEnv>>

\* lines 247-253
ex_reload2(p) ==
    /\ pc[p] = "ex_reload2"
    /\ LET c == loc[p].x_container[1].id
           o == ClientOutcome(c)
           l == Observe(loc[p], o)
       IN  CASE o = "ok" -> Goto(p, "ex_run", [l EXCEPT !.x_container = <<Handle(c)>>])
             [] o \in {"NotFound", "Error"} ->
                    CallFn(p, "cc_entry", "X253", [l EXCEPT !.x_container = <<>>])
    /\ UNCHANGED <<store, clock, watch, nStarted, hist, dockerAvailable, redisUp, daemonUp, runtime, nEnv>>

\* line 254 and the handlers of lines 267 and 286
ex_get(p) ==
    /\ pc[p] = "ex_get"
    /\ LET c == loc[p].rv[1]
           o == ClientOutcome(c)
           l == Observe([loc[p] EXCEPT !.rv = <<>>], o)
       IN  CASE o = "ok" -> Goto(p, "ex_run", [l EXCEPT !.x_container = <<Handle(c)>>])
             [] o = "NotFound" -> CallFn(p, "cc_entry", "X271", l)
             [] o = "Error" -> Goto(p, "ex_fail", l)
    /\ UNCHANGED <<store, clock, watch, nStarted, hist, dockerAvailable, redisUp, daemonUp, runtime, nEnv>>

\* container.exec_run: the command runs only in a running container
ExecOutcome(c) ==
    IF ClientOutcome(c) # "ok" THEN ClientOutcome(c)
    ELSE IF containers[c] # "running" THEN "Conflict"
    ELSE "ok"

\* lines 256-266 and the handlers of lines 267 and 286
ex_run(p) ==
    /\ pc[p] = "ex_run"
    /\ LET c == loc[p].x_container[1].id
           o == ExecOutcome(c)
           l == Observe([loc[p] EXCEPT !.x_container = <<>>], o)
       IN  CASE o = "ok" ->
                    ReturnFn(p, <<Envelope(loc[p].correlation_id, loc[p].command, c)>>, [l EXCEPT !.ran = @ + 1])
             [] o = "NotFound" -> CallFn(p, "cc_entry", "X271", l)
             [] o \in {"Error", "Conflict"} -> Goto(p, "ex_fail", l)
    /\ UNCHANGED <<store, clock, watch, nStarted, hist, dockerAvailable, redisUp, daemonUp, runtime, nEnv>>

\* a handler that starts over when the new container is missing too
ex_nf_get_again(p) ==
    /\ pc[p] = "ex_nf_get"
    /\ LET c == loc[p].rv[1]
           o == ClientOutcome(c)
           l == Observe([loc[p] EXCEPT !.rv = <<>>], o)
       IN  CASE o = "ok" -> Goto(p, "ex_nf_run", [l EXCEPT !.x_container = <<Handle(c)>>])
             [] o = "NotFound" -> CallFn(p, "cc_entry", "X271", l)
             [] o = "Error" -> RaiseFn(p, o, l)
    /\ UNCHANGED <<store, clock, watch, nStarted, hist, dockerAvailable, redisUp, daemonUp, runtime, nEnv>>

\* line 272, inside the handler of line 267
ex_nf_get(p) ==
    /\ pc[p] = "ex_nf_get"
    /\ LET c == loc[p].rv[1]
           o == ClientOutcome(c)
           l == Observe([loc[p] EXCEPT !.rv = <<>>], o)
       IN  CASE o = "ok" -> Goto(p, "ex_nf_run", [l EXCEPT !.x_container = <<Handle(c)>>])
             [] o \in {"NotFound", "Error"} -> RaiseFn(p, o, l)
    /\ UNCHANGED <<store, clock, watch, nStarted, hist, dockerAvailable, redisUp, daemonUp, runtime, nEnv>>

\* lines 275-285, inside the handler of line 267
ex_nf_run(p) ==
    /\ pc[p] = "ex_nf_run"
    /\ LET c == loc[p].x_container[1].id
           o == ExecOutcome(c)
           l == Observe([loc[p] EXCEPT !.x_container = <<>>], o)
       IN  CASE o = "ok" ->
                    ReturnFn(p, <<Envelope(loc[p].correlation_id, loc[p].command, c)>>, [l EXCEPT !.ran = @ + 1])
             [] o = "NotFound" -> RaiseFn(p, "NotFound", l)
             [] o \in {"Error", "Conflict"} -> RaiseFn(p, "Error", l)
    /\ UNCHANGED <<store, clock, watch, nStarted, hist, dockerAvailable, redisUp, daemonUp, runtime, nEnv>>

\* lines 286-295
ex_fail(p) ==
    /\ pc[p] = "ex_fail"
    /\ ReturnFn(p, <<FailureEnvelope(loc[p].correlation_id, loc[p].command)>>,
                [loc[p] EXCEPT !.x_container = <<>>, !.e_container = <<>>, !.rv = <<>>])
    /\ UNCHANGED <<store, clock, watch, nStarted, hist, dockerAvailable, redisUp, daemonUp, runtime, nEnv>>

\* ----------------------------------------- stop_container / remove_container
\* container.stop(): stops the container (a stopped one stays stopped) or raises
StopOutcomes(c) ==
    IF ClientOutcome(c) # "ok" THEN {ClientOutcome(c)}
    ELSE {"ok", "stop_failed"}

\* a caller's stop_container(correlation_id), line 297
stop_container(p, correlation_id) ==
    Start(p, "st_entry", StartLocals("stop_container", correlation_id, "", "", 0))

\* stop_container, lines 307-311
st_entry(p) ==
    /\ pc[p] = "st_entry"
    /\ IF ~dockerAvailable
       THEN RaiseFn(p, "RuntimeError", loc[p])
       ELSE CallFn(p, "gc_entry", "T309", loc[p])
    /\ UNCHANGED <<store, clock, watch, nStarted, hist, dockerAvailable, redisUp, daemonUp, runtime, nEnv>>

\* lines 310-311
st_got(p) ==
    /\ pc[p] = "st_got"
    /\ IF loc[p].rv = <<>>
       THEN ReturnFn(p, <<FALSE>>, loc[p])
       ELSE Goto(p, "st_stop", [loc[p] EXCEPT !.s_container = loc[p].rv, !.rv = <<>>])
    /\ UNCHANGED <<store, clock, watch, nStarted, hist, dockerAvailable, redisUp, daemonUp, runtime, nEnv>>

\* lines 314-319
st_stop(p) ==
    /\ pc[p] = "st_stop"
    /\ LET c == loc[p].s_container[1].id IN
       \E o \in StopOutcomes(c) :
          LET l == Observe([loc[p] EXCEPT !.s_container = <<>>], o) IN
          CASE o = "ok" ->
                  /\ containers' = [containers EXCEPT ![c] = "exited"]
                  /\ ReturnFn(p, <<TRUE>>, l)
            [] o = "stop_failed" ->
                  /\ UNCHANGED containers
                  /\ ReturnFn(p, <<FALSE>>, [l EXCEPT !.seen = @ \cup {"stop_failed"}])
            [] o \in {"NotFound", "Error"} ->
                  /\ UNCHANGED containers
                  /\ ReturnFn(p, <<FALSE>>, l)
    /\ UNCHANGED <<store, clock, watch, nStarted, hist, dockerAvailable, redisUp, daemonUp,
                   nextCid, image, nEnv>>

\* a caller's remove_container(correlation_id), line 321
remove_container(p, correlation_id) ==
    Start(p, "rm_entry", StartLocals("remove_container", correlation_id, "", "", 0))

\* remove_container, lines 331-335
rm_entry(p) ==
    /\ pc[p] = "rm_entry"
    /\ IF ~dockerAvailable
       THEN RaiseFn(p, "RuntimeError", loc[p])
       ELSE CallFn(p, "gc_entry", "R333", loc[p])
    /\ UNCHANGED <<store, clock, watch, nStarted, hist, dockerAvailable, redisUp, daemonUp, runtime, nEnv>>

\* lines 334-335
rm_got(p) ==
    /\ pc[p] = "rm_got"
    /\ IF loc[p].rv = <<>>
       THEN ReturnFn(p, <<FALSE>>, loc[p])
       ELSE Goto(p, "rm_stop", [loc[p] EXCEPT !.s_container = loc[p].rv, !.rv = <<>>])
    /\ UNCHANGED <<store, clock, watch, nStarted, hist, dockerAvailable, redisUp, daemonUp, runtime, nEnv>>

\* line 339 and the handler of lines 342-344
rm_stop(p) ==
    /\ pc[p] = "rm_stop"
    /\ LET c == loc[p].s_container[1].id IN
       \E o \in StopOutcomes(c) :
          LET l == Observe(loc[p], o) IN
          CASE o = "ok" ->
                  /\ containers' = [containers EXCEPT ![c] = "exited"]
                  /\ Goto(p, "rm_remove", l)
            [] o = "stop_failed" ->
                  /\ UNCHANGED containers
                  /\ ReturnFn(p, <<FALSE>>, [l EXCEPT !.seen = @ \cup {"stop_failed"},
                                                      !.s_container = <<>>])
            [] o \in {"NotFound", "Error"} ->
                  /\ UNCHANGED containers
                  /\ ReturnFn(p, <<FALSE>>, [l EXCEPT !.s_container = <<>>])
    /\ UNCHANGED <<store, clock, watch, nStarted, hist, dockerAvailable, redisUp, daemonUp,
                   nextCid, image, nEnv>>

\* lines 340-344
rm_remove(p) ==
    /\ pc[p] = "rm_remove"
    /\ LET c == loc[p].s_container[1].id IN
       \E o \in RemoveOutcomes(c) :
          LET l == Observe([loc[p] EXCEPT !.s_container = <<>>], o) IN
          CASE o = "ok" ->
                  /\ containers' = [containers EXCEPT ![c] = "absent"]
                  /\ ReturnFn(p, <<TRUE>>,
                              [l EXCEPT !.sw_gone = @ \cup {loc[p].correlation_id}])
            [] o = "remove_failed" ->
                  /\ UNCHANGED containers
                  /\ ReturnFn(p, <<FALSE>>, [l EXCEPT !.seen = @ \cup {"remove_failed"}])
            [] o \in {"NotFound", "Error"} ->
                  /\ UNCHANGED containers
                  /\ ReturnFn(p, <<FALSE>>, l)
    /\ UNCHANGED <<store, clock, watch, nStarted, hist, dockerAvailable, redisUp, daemonUp,
                   nextCid, image, nEnv>>

\* ------------------------------------------- cleanup_inactive_containers
\* the inactivity_hours argument, in the unit of the clock
inactivity_hours == 1

\* line 296 (and 263): last_task_completed_at or last_seen
LastActivity(state) ==
    IF state.last_task_completed_at # None THEN state.last_task_completed_at
    ELSE state.last_seen

\* lines 291-299: the record names a container, counts no running task and has
\* been inactive for longer than the threshold
Inactive(data, now) ==
    /\ data # <<>>
    /\ from_dict(data[1]).container_id # None
    /\ from_dict(data[1]).running_task_count = 0
    /\ now - LastActivity(from_dict(data[1])) > inactivity_hours

\* lines 278-287
cleanup_inactive_containers(p) ==
    Start(p, "sw_scan", StartLocals("cleanup_inactive_containers", "", "", "", clock))

\* line 289: scan_iter takes the keys that exist
sw_scan(p) ==
    /\ pc[p] = "sw_scan"
    /\ Goto(p, "sw_next",
            [loc[p] EXCEPT !.sw_keys = {i \in ScanIds : store[_get_key(i)] # <<>>}])
    /\ UNCHANGED <<store, clock, watch, nStarted, hist, dockerAvailable, redisUp, daemonUp, runtime, nEnv>>

\* lines 289-305 and 312: the next key of the scan, in whatever order SCAN yields
sw_next(p) ==
    /\ pc[p] = "sw_next"
    /\ IF loc[p].sw_keys = {}
       THEN ReturnFn(p, <<loc[p].sw_out>>, [loc[p] EXCEPT !.correlation_id = ""])
       ELSE \E i \in loc[p].sw_keys :
               LET l == [loc[p] EXCEPT !.sw_keys = @ \ {i}, !.sw_seen = @ \cup {i}, !.rv = <<>>]
               IN  IF Inactive(store[_get_key(i)], loc[p].now)
                   THEN CallFn(p, "st_entry", "S305",
                               [l EXCEPT !.correlation_id = i, !.sw_tried = @ \cup {i}])
                   ELSE Goto(p, "sw_next", l)
    /\ UNCHANGED <<store, clock, watch, nStarted, hist, dockerAvailable, redisUp, daemonUp, runtime, nEnv>>

\* line 307
sw_remove(p) ==
    /\ pc[p] = "sw_remove"
    /\ CallFn(p, "rm_entry", "S307", [loc[p] EXCEPT !.rv = <<>>])
    /\ UNCHANGED <<store, clock, watch, nStarted, hist, dockerAvailable, redisUp, daemonUp, runtime, nEnv>>

\* line 308
sw_append(p) ==
    /\ pc[p] = "sw_append"
    /\ Goto(p, "sw_next", [loc[p] EXCEPT !.sw_out = Append(@, loc[p].correlation_id),
                                         !.rv = <<>>])
    /\ UNCHANGED <<store, clock, watch, nStarted, hist, dockerAvailable, redisUp, daemonUp, runtime, nEnv>>

\* lines 309-310
sw_except(p) ==
    /\ pc[p] = "sw_except"
    /\ Goto(p, "sw_next", [loc[p] EXCEPT !.rv = <<>>, !.s_container = <<>>])
    /\ UNCHANGED <<store, clock, watch, nStarted, hist, dockerAvailable, redisUp, daemonUp, runtime, nEnv>>

\* ------------------------------------------------------- cleanup_old_tasks
\* the max_age_hours argument, in the unit of the clock
max_age_hours == 1

\* lines 260-265: the record has been idle for longer than max_age_hours and
\* counts no running task
Expired(data, now) ==
    /\ data # <<>>
    /\ now - LastActivity(from_dict(data[1])) > max_age_hours
    /\ from_dict(data[1]).running_task_count = 0

\* lines 249-257: scan_iter takes the keys that exist
cleanup_old_tasks(p) ==
    Start(p, "ot_next",
          [StartLocals("cleanup_old_tasks", "", "", "", clock)
              EXCEPT !.sw_keys = {i \in ScanIds : store[_get_key(i)] # <<>>}])

\* lines 257-272: the next key of the scan is read and tested
ot_next(p) ==
    /\ pc[p] = "ot_next"
    /\ IF loc[p].sw_keys = {}
       THEN ReturnFn(p, <<>>, [loc[p] EXCEPT !.correlation_id = ""])
       ELSE \E i \in loc[p].sw_keys :
               LET l == [loc[p] EXCEPT !.sw_keys = @ \ {i}, !.rv = <<>>,
                                       !.s_container = <<>>]
                   data == store[_get_key(i)]
               IN  IF Expired(data, loc[p].now)
                   THEN IF from_dict(data[1]).container_id # None
                        THEN CallFn(p, "rm_entry", "O270", [l EXCEPT !.correlation_id = i])
                        ELSE Goto(p, "ot_delete", [l EXCEPT !.correlation_id = i])
                   ELSE Goto(p, "ot_next", l)
    /\ UNCHANGED <<store, clock, watch, nStarted, hist, dockerAvailable, redisUp, daemonUp, runtime, nEnv>>

\* line 275: DEL of the key, whatever it holds by now
ot_delete(p) ==
    /\ pc[p] = "ot_delete"
    /\ store' = [store EXCEPT ![_get_key(loc[p].correlation_id)] = <<>>]
    /\ watch' = Touch(_get_key(loc[p].correlation_id))
    /\ Goto(p, "ot_next", [loc[p] EXCEPT !.rv = <<>>, !.s_container = <<>>])
    /\ UNCHANGED <<clock, nStarted, hist, dockerAvailable, redisUp, daemonUp, runtime, nEnv>>

\* --------------------------------------------------------------- track_task
\* tasks.py lines 18-23: the wrapper checks the id and calls register_task
track_task(p, correlation_id, task_name) ==
    LET l == StartLocals("track_task", correlation_id, task_name, "", clock) IN
    IF correlation_id = ""
    THEN Immediately(p, "ValueError", <<>>, l)
    ELSE /\ Dispatch(p)
         /\ nStarted' = nStarted + 1
         /\ pc' = [pc EXCEPT ![p] = "rt_watch"]
         /\ stk' = [stk EXCEPT ![p] = <<"K23">>]
         /\ loc' = [loc EXCEPT ![p] = l]
         /\ res' = [res EXCEPT ![p] = NoRes]
         /\ prev' = [prev EXCEPT ![p] = Remember(p, l.op, l.correlation_id)]
         /\ UNCHANGED <<store, clock, watch, hist, dockerAvailable, redisUp, daemonUp, runtime, nEnv>>

\* a wrapper that calls finish_task after the body without try/finally
FinallyOnReturn(outcome) == outcome = "ret"

\* tasks.py lines 26-31: the finally clause runs however the try block ends
FinallyRuns(outcome) == TRUE

\* tasks.py lines 26-31: task_func returns or raises, then finish_task is called
tk_body(p) ==
    /\ pc[p] = "tk_body"
    /\ \E outcome \in {"ret", "Exception"} :
          IF FinallyRuns(outcome)
          THEN CallFn(p, "ft_watch", "K31",
                      [loc[p] EXCEPT !.body = outcome, !.rv = <<>>, !.state = <<>>,
                                     !.now = clock])
          ELSE RaiseFn(p, outcome, [loc[p] EXCEPT !.rv = <<>>, !.state = <<>>])
    /\ UNCHANGED <<store, clock, watch, nStarted, hist, dockerAvailable, redisUp, daemonUp, runtime, nEnv>>

\* tasks.py lines 28 and 29-32: the result is returned, or the exception goes on
tk_done(p) ==
    /\ pc[p] = "tk_done"
    /\ LET l == [loc[p] EXCEPT !.rv = <<>>, !.state = <<>>, !.body = "none"] IN
       IF loc[p].body = "ret"
       THEN ReturnFn(p, <<"result">>, l)
       ELSE RaiseFn(p, loc[p].body, l)
    /\ UNCHANGED <<store, clock, watch, nStarted, hist, dockerAvailable, redisUp, daemonUp, runtime, nEnv>>

\* --------------------------------------------------------- specifications
\* the steps of the session store's operations
RegisterSteps ==
    \/ \E p \in Procs : rt_watch(p)
    \/ \E p \in Procs : rt_get(p)
    \/ \E p \in Procs : rt_exec(p)

FinishSteps ==
    \/ \E p \in Procs : ft_watch(p)
    \/ \E p \in Procs : ft_get(p)
    \/ \E p \in Procs : ft_exec(p)

\* workers calling register_task and finish_task concurrently
TrackerNext ==
    \/ nStarted < MaxOps
       /\ \E p \in Procs, i \in CallIds, n \in TaskNames : register_task(p, i, n)
    \/ nStarted < MaxOps
       /\ \E p \in Procs, i \in CallIds : finish_task(p, i)
    \/ RegisterSteps
    \/ FinishSteps

SpecTracker == Init /\ [][TrackerNext]_vars

SandboxSteps ==
    \/ \E p \in Procs : sb_watch(p)
    \/ \E p \in Procs : sb_get(p)
    \/ \E p \in Procs : sb_exec(p)

ContainerIdSteps ==
    \/ \E p \in Procs : sc_entry(p)
    \/ \E p \in Procs : sc_watch(p)
    \/ \E p \in Procs : sc_get(p)
    \/ \E p \in Procs : sc_exec(p)

\* workers calling the four mutators of the session record concurrently
StoreNext ==
    \/ nStarted < MaxCalls
       /\ \E p \in Procs, i \in SessionIds, n \in TaskNames : register_task(p, i, n)
    \/ nStarted < MaxCalls
       /\ \E p \in Procs, i \in SessionIds : finish_task(p, i)
    \/ nStarted < MaxCalls
       /\ \E p \in Procs, i \in SessionIds, b \in BOOLEAN : set_sandbox_state(p, i, b)
    \/ nStarted < MaxCalls
       /\ \E p \in Procs, i \in SessionIds, c \in Cids : set_container_id(p, i, c)
    \/ RegisterSteps
    \/ FinishSteps
    \/ SandboxSteps
    \/ ContainerIdSteps

SpecStore == (Init \/ InitProvisioned) /\ [][StoreNext]_vars

\* the next statement of worker p inside a mutator of the session record
MutatorStep(p) ==
    \/ rt_watch(p) \/ rt_get(p) \/ rt_exec(p)
    \/ ft_watch(p) \/ ft_get(p) \/ ft_exec(p)
    \/ sb_watch(p) \/ sb_get(p) \/ sb_exec(p)
    \/ sc_entry(p) \/ sc_watch(p) \/ sc_get(p) \/ sc_exec(p)

\* workers calling the four mutators concurrently, each with one argument
FairNext ==
    \/ nStarted < MaxCalls
       /\ \E p \in Procs, i \in SessionIds : register_task(p, i, "build")
    \/ nStarted < MaxCalls
       /\ \E p \in Procs, i \in SessionIds : finish_task(p, i)
    \/ nStarted < MaxCalls
       /\ \E p \in Procs, i \in SessionIds : set_sandbox_state(p, i, TRUE)
    \/ nStarted < MaxCalls
       /\ \E p \in Procs, i \in SessionIds : set_container_id(p, i, nextCid)
    \/ \E p \in Procs : MutatorStep(p)

\* every worker that is inside a call keeps running
SpecStoreFair ==
    /\ Init \/ InitProvisioned
    /\ [][FairNext]_vars
    /\ \A p \in Procs : WF_vars(MutatorStep(p))

\* the steps of the orchestrator's operations
ManagerSteps ==
    \/ \E p \in Procs : sc_entry(p)
    \/ \E p \in Procs : sc_watch(p)
    \/ \E p \in Procs : sc_get(p)
    \/ \E p \in Procs : sc_exec(p)
    \/ \E p \in Procs : gc_entry(p)
    \/ \E p \in Procs : gc_get(p)
    \/ \E p \in Procs : gc_none(p)
    \/ \E p \in Procs : cc_entry(p)
    \/ \E p \in Procs : cc_get(p)
    \/ \E p \in Procs : cc_start(p)
    \/ \E p \in Procs : cc_image(p)
    \/ \E p \in Procs : build_image(p)
    \/ \E p \in Procs : cc_run(p)
    \/ \E p \in Procs : cc_ret(p)
    \/ \E p \in Procs : en_entry(p)
    \/ \E p \in Procs : en_got(p)
    \/ \E p \in Procs : en_reload(p)
    \/ \E p \in Procs : en_start(p)
    \/ \E p \in Procs : en_reload2(p)
    \/ \E p \in Procs : en_a_remove(p)
    \/ \E p \in Procs : en_a_get(p)
    \/ \E p \in Procs : en_b_remove(p)
    \/ \E p \in Procs : en_b_get(p)
    \/ \E p \in Procs : en_ret_get(p)
    \/ \E p \in Procs : ex_entry(p)
    \/ \E p \in Procs : ex_reload(p)
    \/ \E p \in Procs : ex_start(p)
    \/ \E p \in Procs : ex_reload2(p)
    \/ \E p \in Procs : ex_get(p)
    \/ \E p \in Procs : ex_run(p)
    \/ \E p \in Procs : ex_nf_get(p)
    \/ \E p \in Procs : ex_nf_run(p)
    \/ \E p \in Procs : ex_fail(p)

\* the steps of stop_container and remove_container
StopRemoveSteps ==
    \/ \E p \in Procs : st_entry(p)
    \/ \E p \in Procs : st_got(p)
    \/ \E p \in Procs : st_stop(p)
    \/ \E p \in Procs : rm_entry(p)
    \/ \E p \in Procs : rm_got(p)
    \/ \E p \in Procs : rm_stop(p)
    \/ \E p \in Procs : rm_remove(p)

\* the steps of get_container, with the set_container_id call of line 143
GetSteps ==
    \/ \E p \in Procs : gc_entry(p)
    \/ \E p \in Procs : gc_get(p)
    \/ \E p \in Procs : gc_none(p)
    \/ \E p \in Procs : sc_entry(p)

SweepSteps ==
    \/ \E p \in Procs : sw_scan(p)
    \/ \E p \in Procs : sw_next(p)
    \/ \E p \in Procs : sw_remove(p)
    \/ \E p \in Procs : sw_append(p)
    \/ \E p \in Procs : sw_except(p)

\* a worker runs a cleanup
Sweeping == \E p \in Procs : loc[p].op = "cleanup_inactive_containers"

\* a worker is inside register_task or finish_task
Tracking == \E p \in Procs : loc[p].op \in {"register_task", "finish_task"}

\* the periodic cleanup running beside a caller that registers and finishes
\* tasks on s1, one after the other
SweepNext ==
    \/ nStarted < MaxCalls /\ ~Sweeping
       /\ \E p \in Procs : cleanup_inactive_containers(p)
    \/ nStarted < MaxCalls /\ ~Tracking
       /\ \E p \in Procs, i \in SessionIds : register_task(p, i, "")
    \/ nStarted < MaxCalls /\ ~Tracking
       /\ \E p \in Procs, i \in SessionIds : finish_task(p, i)
    \/ SweepSteps
    \/ StopRemoveSteps
    \/ GetSteps
    \/ RegisterSteps
    \/ FinishSteps

SpecSweep == InitSweep /\ [][SweepNext]_vars

\* the steps of create_container where the image exists, with the
\* set_container_id call of line 110
CreateSteps ==
    \/ \E p \in Procs : cc_entry(p)
    \/ \E p \in Procs : cc_get(p)
    \/ \E p \in Procs : cc_start(p)
    \/ \E p \in Procs : cc_image(p)
    \/ \E p \in Procs : cc_run(p)
    \/ \E p \in Procs : cc_ret(p)
    \/ \E p \in Procs : sc_watch(p)
    \/ \E p \in Procs : sc_get(p)
    \/ \E p \in Procs : sc_exec(p)

\* cleanup_old_tasks running beside callers that register tasks, one after
\* the other
PurgeNext ==
    \/ nStarted < MaxCalls /\ (\A p \in Procs : loc[p].op # "cleanup_old_tasks")
       /\ \E p \in Procs : cleanup_old_tasks(p)
    \/ nStarted < MaxCalls /\ ~Tracking
       /\ \E p \in Procs, i \in SessionIds : register_task(p, i, "")
    \/ \E p \in Procs : ot_next(p)
    \/ \E p \in Procs : ot_delete(p)
    \/ \E p \in Procs : rm_entry(p)
    \/ \E p \in Procs : rm_got(p)
    \/ \E p \in Procs : rm_stop(p)
    \/ \E p \in Procs : rm_remove(p)
    \/ GetSteps
    \/ RegisterSteps

SpecPurge == InitSweep /\ [][PurgeNext]_vars

\* workers running wrapped tasks concurrently
TasksNext ==
    \/ nStarted < MaxCalls
       /\ \E p \in Procs, i \in CallIds, n \in TaskNames \ {""} : track_task(p, i, n)
    \/ \E p \in Procs : tk_body(p)
    \/ \E p \in Procs : tk_done(p)
    \/ RegisterSteps
    \/ FinishSteps

SpecTasks == Init /\ [][TasksNext]_vars

\* the periodic cleanup and create_container, one call at a time
EvictNext ==
    \/ AllIdle /\ nStarted < MaxCalls
       /\ \E p \in Procs : cleanup_inactive_containers(p)
    \/ AllIdle /\ nStarted < MaxCalls
       /\ \E p \in Procs, i \in SessionIds : create_container(p, i)
    \/ SweepSteps
    \/ StopRemoveSteps
    \/ GetSteps
    \/ CreateSteps

SpecEvict == InitSweep /\ [][EvictNext]_vars

\* the steps of ensure_container, with the calls it makes
EnsureSteps ==
    \/ \E p \in Procs : en_entry(p)
    \/ \E p \in Procs : en_got(p)
    \/ \E p \in Procs : en_reload(p)
    \/ \E p \in Procs : en_start(p)
    \/ \E p \in Procs : en_reload2(p)
    \/ \E p \in Procs : en_a_remove(p)
    \/ \E p \in Procs : en_a_get(p)
    \/ \E p \in Procs : en_b_remove(p)
    \/ \E p \in Procs : en_b_get(p)
    \/ \E p \in Procs : en_ret_get(p)
    \/ \E p \in Procs : build_image(p)
    \/ GetSteps
    \/ CreateSteps

\* the runtime changing on its own
RuntimeSteps ==
    \/ \E c \in Cids : ContainerStops(c)
    \/ \E c \in Cids : ContainerVanishes(c)
    \/ DaemonGoesDown
    \/ DaemonComesBack

\* one caller at a time uses the orchestrator and the store, over an unreliable runtime
Next ==
    \/ AllIdle /\ nStarted < MaxCalls
       /\ \E p \in Procs, i \in SessionIds, n \in TaskNames : register_task(p, i, n)
    \/ AllIdle /\ nStarted < MaxCalls
       /\ \E p \in Procs, i \in SessionIds : get_container(p, i)
    \/ AllIdle /\ nStarted < MaxCalls
       /\ \E p \in Procs, i \in SessionIds : create_container(p, i)
    \/ AllIdle /\ nStarted < MaxCalls
       /\ \E p \in Procs, i \in SessionIds : ensure_container(p, i)
    \/ AllIdle /\ nStarted < MaxCalls
       /\ \E p \in Procs, i \in CallIds, c \in Commands : exec_command(p, i, c)
    \/ RegisterSteps
    \/ ManagerSteps
    \/ RuntimeSteps

Spec == (Init \/ InitProvisioned) /\ [][Next]_vars

\* one caller at a time uses every operation of the store and of the
\* orchestrator, over an unreliable runtime
AllNext ==
    \/ AllIdle /\ nStarted < MaxCalls
       /\ \E p \in Procs, i \in CallIds, n \in TaskNames : register_task(p, i, n)
    \/ AllIdle /\ nStarted < MaxCalls
       /\ \E p \in Procs, i \in CallIds : finish_task(p, i)
    \/ AllIdle /\ nStarted < MaxCalls
       /\ \E p \in Procs, i \in SessionIds, b \in BOOLEAN : set_sandbox_state(p, i, b)
    \/ AllIdle /\ nStarted < MaxCalls
       /\ \E p \in Procs, i \in SessionIds, c \in Cids : set_container_id(p, i, c)
    \/ AllIdle /\ nStarted < MaxCalls
       /\ \E p \in Procs, i \in SessionIds : get_container(p, i)
    \/ AllIdle /\ nStarted < MaxCalls
       /\ \E p \in Procs, i \in SessionIds : create_container(p, i)
    \/ AllIdle /\ nStarted < MaxCalls
       /\ \E p \in Procs, i \in SessionIds : ensure_container(p, i)
    \/ AllIdle /\ nStarted < MaxCalls
       /\ \E p \in Procs, i \in SessionIds : exec_command(p, i, "true")
    \/ AllIdle /\ nStarted < MaxCalls
       /\ \E p \in Procs, i \in SessionIds : stop_container(p, i)
    \/ AllIdle /\ nStarted < MaxCalls
       /\ \E p \in Procs, i \in SessionIds : remove_container(p, i)
    \/ AllIdle /\ nStarted < MaxCalls
       /\ \E p \in Procs : build_image_call(p)
    \/ RegisterSteps
    \/ FinishSteps
    \/ SandboxSteps
    \/ ManagerSteps
    \/ StopRemoveSteps
    \/ RuntimeSteps

SpecAll == (Init \/ InitProvisioned) /\ [][AllNext]_vars

\* one caller at a time uses the operations of the store, the redis server in
\* reach or not
OutageNext ==
    \/ AllIdle /\ nStarted < MaxCalls
       /\ \E p \in Procs, i \in CallIds, n \in TaskNames : register_task(p, i, n)
    \/ AllIdle /\ nStarted < MaxCalls
       /\ \E p \in Procs, i \in CallIds : finish_task(p, i)
    \/ AllIdle /\ nStarted < MaxCalls
       /\ \E p \in Procs, i \in CallIds, b \in BOOLEAN : set_sandbox_state(p, i, b)
    \/ AllIdle /\ nStarted < MaxCalls
       /\ \E p \in Procs, i \in CallIds, c \in Cids : set_container_id(p, i, c)
    \/ AllIdle /\ nStarted < MaxCalls
       /\ \E p \in Procs, i \in CallIds : call_get_state(p, i)
    \/ AllIdle /\ nStarted < MaxCalls
       /\ \E p \in Procs, i \in CallIds : call_get_container_id(p, i)
    \/ RegisterSteps
    \/ FinishSteps
    \/ SandboxSteps
    \/ ContainerIdSteps

SpecOutage == InitOutage /\ [][OutageNext]_vars

\* two workers at a time calling ensure_container, over a runtime that changes
\* between the calls
RaceNext ==
    \/ nStarted < MaxCalls /\ Cardinality({q \in Procs : pc[q] # "idle"}) < 2
       /\ \E p \in Procs, i \in SessionIds : ensure_container(p, i)
    \/ EnsureSteps
    \/ AllIdle /\ RuntimeSteps

SpecRace == Init /\ [][RaceNext]_vars

\* time passes between two statements of the workers: datetime.utcnow() of
\* lines 76 and 120 is read once, before the retry loop
Tick ==
    /\ clock < MaxClock
    /\ clock' = clock + 1
    /\ UNCHANGED <<store, pc, stk, loc, watch, res, prev, nStarted, hist, dockerAvailable,
                   redisUp, daemonUp, runtime, nEnv>>

\* workers calling register_task and finish_task concurrently while time passes
ClockNext ==
    \/ nStarted < MaxCalls
       /\ \E p \in Procs, i \in SessionIds : register_task(p, i, "build")
    \/ nStarted < MaxCalls
       /\ \E p \in Procs, i \in SessionIds : finish_task(p, i)
    \/ RegisterSteps
    \/ FinishSteps
    \/ Tick

SpecClock == (Init \/ InitProvisioned) /\ [][ClockNext]_vars

\* two sessions, each provisioned by an earlier create_container; since then
\* the container of s1 may have stopped or been removed behind the
\* orchestrator's back, the image may have been pruned, and the daemon may be
\* out of reach
InitPair ==
    /\ store = [k \in Keys |->
                  IF k = _get_key("s1") THEN <<to_dict(ContainerNew("s1", 1, 1))>>
                  ELSE IF k = _get_key("s2") THEN <<to_dict(ContainerNew("s2", 2, 1))>>
                  ELSE <<>>]
    /\ clock = 1
    /\ pc = [p \in Procs |-> "idle"]
    /\ stk = [p \in Procs |-> <<>>]
    /\ loc = [p \in Procs |-> Loc0]
    /\ watch = [p \in Procs |-> "none"]
    /\ res = [p \in Procs |-> NoRes]
    /\ prev = [p \in Procs |-> NoRes]
    /\ nStarted = 0
    /\ nReg = [i \in SessionIds |-> 0]
    /\ nFin = [i \in SessionIds |-> 0]
    /\ exceeded = [i \in SessionIds |-> FALSE]
    /\ dockerAvailable = TRUE
    /\ daemonUp \in BOOLEAN
    /\ \E st \in {"running", "exited", "absent"} :
          containers = [c \in Cids |-> IF c = 1 THEN st
                                       ELSE IF c = 2 THEN "running" ELSE "absent"]
    /\ nextCid = 3
    /\ image \in BOOLEAN
    /\ redisUp = TRUE
    /\ nEnv = 0

\* session i has no call in flight
Free(i) == \A q \in Procs : pc[q] # "idle" => loc[q].correlation_id # i

\* callers of two sessions use the orchestrator concurrently, one call per
\* session at a time, over a runtime whose calls may fail and where a
\* container may disappear just before exec_command runs the command in it
PairNext ==
    \/ nStarted < MaxCalls
       /\ \E p \in Procs, i \in ScanIds : Free(i) /\ create_container(p, i)
    \/ nStarted < MaxCalls
       /\ \E p \in Procs, i \in ScanIds : Free(i) /\ ensure_container(p, i)
    \/ nStarted < MaxCalls
       /\ \E p \in Procs, i \in ScanIds : Free(i) /\ exec_command(p, i, "true")
    \/ nStarted < MaxCalls
       /\ \E p \in Procs, i \in ScanIds : Free(i) /\ stop_container(p, i)
    \/ nStarted < MaxCalls
       /\ \E p \in Procs, i \in ScanIds : Free(i) /\ remove_container(p, i)
    \/ ManagerSteps
    \/ StopRemoveSteps
    \/ \E q \in Procs :
          /\ pc[q] = "ex_run"
          /\ ContainerVanishes(loc[q].x_container[1].id)

SpecPair == InitPair /\ [][PairNext]_vars

\* ------------------------------------------------------------------ claims
\* running_task_count of the stored record (0 when there is none)
Count(i) ==
    IF store[_get_key(i)] = <<>> THEN 0 ELSE store[_get_key(i)][1].running_task_count

\* C1: register_task calls running concurrently on one session each increment
\* running_task_count distinctly: while no finish_task has completed, the callers
\* got different counts, and once all have returned the stored count is the
\* number of register_task calls
C1_NoLostUpdate ==
    \A i \in SessionIds :
        nFin[i] = 0 =>
            /\ AllIdle => Count(i) = nReg[i]
            /\ \A p, q \in Procs :
                  (/\ p # q
                   /\ res[p].op = "register_task" /\ res[p].id = i /\ res[p].out = "ret"
                   /\ res[q].op = "register_task" /\ res[q].id = i /\ res[q].out = "ret")
                  => res[p].val # res[q].val

\* every worker has returned from a register_task on s1 that overlapped the others
C1_Witness ==
    /\ AllIdle
    /\ nFin["s1"] = 0
    /\ \A p \in Procs :
          res[p].op = "register_task" /\ res[p].id = "s1" /\ res[p].out = "ret"
    /\ Count("s1") = NProcs

\* C2: in every interleaving of register_task and finish_task on one session
\* running_task_count is never negative, and as long as completed finishes have
\* never outnumbered completed registers it is #register - #finish
C2_CountIsRegistersMinusFinishes ==
    \A i \in SessionIds :
        /\ Count(i) >= 0
        /\ ~exceeded[i] => Count(i) = nReg[i] - nFin[i]

\* a finish_task that ran on a second worker, beside another call, has completed
C2_Witness ==
    /\ ~exceeded["s1"]
    /\ nReg["s1"] = 2
    /\ nFin["s1"] = 1
    /\ res[2].op = "finish_task" /\ res[2].out = "ret" /\ res[2].val = <<1>>
    /\ Count("s1") = 1

\* the container id a stored document names
StoredId(rec) == IF rec = <<>> THEN None ELSE rec[1].container_id

\* C3: when the stored container_id no longer resolves in the runtime,
\* get_container returns None and clears the stale id from the record, so that
\* get_container_id returns None afterwards
C3_GetClearsStaleId ==
    \A p \in Procs :
        (/\ res[p].op = "get_container"
         /\ res[p].pre.cst = "absent"
         /\ res[p].seen = {})
        => /\ res[p].out = "ret"
           /\ res[p].val = <<>>
           /\ get_container_id(res[p].id) = None

\* C4: when the stored container_id no longer resolves in the runtime, an
\* ensure_container without concurrent caller creates exactly one container,
\* returns it, and leaves the record naming the new container
C4_StaleIdRecreated ==
    \A p \in Procs :
        (/\ res[p].op = "ensure_container"
         /\ res[p].pre.cst = "absent"
         /\ res[p].seen = {})
        => /\ res[p].out = "ret"
           /\ res[p].made = 1
           /\ res[p].val[1].id = nextCid - 1
           /\ res[p].val[1].id # StoredId(res[p].pre.rec)
           /\ containers[res[p].val[1].id] = "running"
           /\ get_container_id(res[p].id) = res[p].val[1].id

\* an ensure_container that found the stored id stale has returned a new container
C4_Witness ==
    \E p \in Procs :
        /\ res[p].op = "ensure_container"
        /\ res[p].pre.cst = "absent"
        /\ res[p].seen = {}
        /\ res[p].out = "ret"
        /\ res[p].made = 1
        /\ StoredId(res[p].pre.rec) = 1
        /\ get_container_id(res[p].id) = 2

\* C5: ensure_container called twice in succession on a session whose container
\* is running returns the same container id both times, creates no container and
\* leaves the record unchanged
C5_EnsureTwice ==
    \A p \in Procs :
        (/\ res[p].op = "ensure_container"
         /\ prev[p].op = "ensure_container"
         /\ prev[p].pre.cst = "running"
         /\ prev[p].seen = {}
         /\ res[p].seen = {})
        => /\ prev[p].out = "ret"
           /\ res[p].out = "ret"
           /\ res[p].val[1].id = prev[p].val[1].id
           /\ prev[p].made = 0
           /\ res[p].made = 0
           /\ res[p].pre.rec = prev[p].pre.rec
           /\ store[_get_key(res[p].id)] = prev[p].pre.rec

\* the second of two successive ensure_container calls on a running container
\* has returned
C5_Witness ==
    \E p \in Procs :
        /\ res[p].op = "ensure_container"
        /\ prev[p].op = "ensure_container"
        /\ prev[p].pre.cst = "running"
        /\ prev[p].seen = {}
        /\ res[p].seen = {}
        /\ res[p].out = "ret"
        /\ res[p].val[1].id = 1

\* C6: whenever ensure_container returns a handle (no other operation running
\* on the session, no change of the runtime from outside during the call) the
\* returned container is running and its id is the container_id of the record
C6_ReturnedIsRunningAndStored ==
    \A p \in Procs :
        (/\ res[p].op = "ensure_container"
         /\ res[p].out = "ret"
         /\ "ext" \notin res[p].seen)
        => /\ containers[res[p].val[1].id] = "running"
           /\ get_container_id(res[p].id) = res[p].val[1].id

\* C7: ensure_container raises only when the runtime is unreachable; a container
\* that is missing, stopped, fails to start, fails to be removed or vanishes
\* during the checks is replaced and a handle is returned
C7_RaisesOnlyWhenUnreachable ==
    \A p \in Procs :
        (/\ res[p].op = "ensure_container"
         /\ dockerAvailable
         /\ "down" \notin res[p].seen)
        => res[p].out = "ret"

\* C8: with the runtime available at startup and a non-empty id, exec_command
\* never raises: every failure, also one during the retry after NotFound, comes
\* back as an envelope with success = False
C8_ExecNeverRaises ==
    \A p \in Procs :
        (/\ res[p].op = "exec_command"
         /\ dockerAvailable
         /\ res[p].id # "")
        => res[p].out = "ret"

\* C9: exec_command with an empty session id fails at once with an invalid
\* argument error; it creates no container, runs no command, writes no record
C9_EmptyIdRejected ==
    \A p \in Procs :
        (/\ res[p].op = "exec_command"
         /\ dockerAvailable
         /\ res[p].id = "")
        => /\ res[p].out \notin {"ret", "Error", "NotFound"}
           /\ res[p].made = 0
           /\ res[p].ran = 0
           /\ store[_get_key("")] = <<>>

\* C10: when the session's container has disappeared or fails to start, and
\* the runtime can create containers and run commands, exec_command returns the
\* envelope of the command that ran (success = True for a command that exits 0)
\* and raises nothing
C10_FlakinessInvisible ==
    \A p \in Procs :
        (/\ res[p].op = "exec_command"
         /\ dockerAvailable
         /\ res[p].id # ""
         /\ \/ res[p].pre.cst = "absent"
            \/ res[p].pre.cst = "exited" /\ res[p].seen \cap {"start_failed", "start_noop"} # {}
         /\ res[p].seen \cap {"down", "ext"} = {})
        => /\ res[p].out = "ret"
           /\ res[p].val[1].command = "true" => res[p].val[1].success

\* C11: in every interleaving with register_task and finish_task, the cleanup
\* stops or removes a container only while the running_task_count of its
\* session is 0, and appends to its result only such a session
C11_BusyNeverEvicted ==
    [][\A p \in Procs :
          (/\ loc[p].op = "cleanup_inactive_containers"
           /\ \/ pc[p] \in {"st_stop", "rm_stop", "rm_remove"} /\ containers' # containers
              \/ pc[p] = "sw_append" /\ pc'[p] # pc[p])
          => Count(loc[p].correlation_id) = 0]_vars

\* a step of the worker that runs the cleanup
SweepStep ==
    \E p \in Procs :
        /\ loc[p].op = "cleanup_inactive_containers"
        /\ pc'[p] # pc[p] \/ loc'[p] # loc[p]

Listed(val) == {val[1][k] : k \in 1..Len(val[1])}

\* C13: every id in the list the cleanup returns names a session whose container
\* this cleanup stopped and removed; a session whose container was gone already
\* or could not be stopped or removed is not in the list
C13_ListedWereRemoved ==
    \A p \in Procs :
        (res[p].op = "cleanup_inactive_containers" /\ res[p].out = "ret")
        => Listed(res[p].val) \subseteq res[p].sw.gone

\* C14: a container that cannot be stopped or removed (False result, runtime
\* error, container gone, runtime unavailable) does not abort the cleanup: it
\* returns, having examined every record and tried every inactive session
C14_FailureNeverAborts ==
    \A p \in Procs :
        res[p].op = "cleanup_inactive_containers"
        => /\ res[p].out = "ret"
           /\ \A i \in ScanIds :
                 /\ store[_get_key(i)] # <<>> => i \in res[p].sw.seen
                 /\ Inactive(store[_get_key(i)], res[p].sw.now) => i \in res[p].sw.tried

\* a cleanup that failed on one session has returned, having removed the
\* container of the other
C14_Witness ==
    \E p \in Procs :
        /\ res[p].op = "cleanup_inactive_containers"
        /\ res[p].out = "ret"
        /\ res[p].sw.tried = ScanIds
        /\ \E i \in ScanIds : i \notin res[p].sw.gone
        /\ \E i \in ScanIds : i \in res[p].sw.gone

\* C15: when create_container has made a new container c and returned (nobody
\* else working on the session) the record exists, made with running_task_count
\* 0 if it was missing, its container_id is c and its container_created_at is
\* set; likewise after exec_command on a session that had no record
C15_CreatePersists ==
    \A p \in Procs :
        /\ (/\ res[p].op = "create_container"
            /\ res[p].out = "ret"
            /\ res[p].made = 1)
           => /\ store[_get_key(res[p].id)] # <<>>
              /\ store[_get_key(res[p].id)][1].container_id = res[p].val[1]
              /\ store[_get_key(res[p].id)][1].container_created_at # JsonNull
              /\ res[p].pre.rec = <<>> => Count(res[p].id) = 0
        /\ (/\ res[p].op = "exec_command"
            /\ res[p].id # ""
            /\ res[p].pre.rec = <<>>
            /\ res[p].out = "ret"
            /\ res[p].ran = 1)
           => /\ res[p].made >= 1
              /\ store[_get_key(res[p].id)] # <<>>
              /\ store[_get_key(res[p].id)][1].container_id = res[p].val[1].container_id
              /\ store[_get_key(res[p].id)][1].container_created_at # JsonNull
              /\ Count(res[p].id) = 0

\* create_container on a session without record has returned a new container
C15_Witness ==
    \E p \in Procs :
        /\ res[p].op = "create_container"
        /\ res[p].out = "ret"
        /\ res[p].made = 1
        /\ res[p].pre.rec = <<>>
        /\ get_container_id(res[p].id) = res[p].val[1]

\* C16: when the stored container_id resolves in the runtime, create_container
\* returns that id, creates nothing and writes nothing (it starts the container
\* when it is not running); it creates a container only when no id is stored
\* or the stored one is not found
C16_CreateReuses ==
    \A p \in Procs :
        (res[p].op = "create_container" /\ res[p].out = "ret")
        => /\ (res[p].pre.cst \in {"running", "exited"} /\ "ext" \notin res[p].seen)
              => /\ res[p].val[1] = StoredId(res[p].pre.rec)
                 /\ res[p].made = 0
                 /\ store[_get_key(res[p].id)] = res[p].pre.rec
                 /\ "start_noop" \notin res[p].seen => containers[res[p].val[1]] = "running"
           /\ res[p].made >= 1
              => res[p].pre.cst \in {"none", "absent"} \/ "ext" \in res[p].seen

\* create_container has started the stopped container of the record and returned it
C16_Witness ==
    \E p \in Procs :
        /\ res[p].op = "create_container"
        /\ res[p].out = "ret"
        /\ res[p].pre.cst = "exited"
        /\ res[p].made = 0
        /\ res[p].val[1] = StoredId(res[p].pre.rec)
        /\ containers[res[p].val[1]] = "running"

\* worker p's ensure_container found no container for the session, created
\* one and returned it, the runtime undisturbed
Raced(p) ==
    /\ res[p].op = "ensure_container"
    /\ res[p].out = "ret"
    /\ res[p].pre.cst = "none"
    /\ res[p].made = 1
    /\ "ext" \notin res[p].seen

\* C17: when two concurrent ensure_container calls for one session both find
\* no container, each creates its own and each write of the record puts the
\* writer's container id in it; once both have returned the record names the
\* container of one of them, the other container is still running and no
\* record names it
C17_RaceLastWriteWins ==
    [][/\ \A p \in Procs :
             (pc[p] = "sc_exec" /\ pc'[p] \notin {"sc_exec", "sc_watch"})
             => StoredId(store'[_get_key(loc[p].correlation_id)]) = loc[p].container_id
       /\ \A p, q \in Procs :
             (p # q /\ nStarted' = 2 /\ Raced(p)' /\ Raced(q)' /\ res'[p].id = res'[q].id)
             => LET a == res'[p].val[1].id
                    b == res'[q].val[1].id
                    c == StoredId(store'[_get_key(res'[p].id)])
                IN  /\ a # b
                    /\ c \in {a, b}
                    /\ containers'[a] = "running"
                    /\ containers'[b] = "running"
                    /\ \A k \in Keys : StoredId(store'[k]) \in {a, b} => StoredId(store'[k]) = c]_vars

\* two calls raced; the record names the container of the one that wrote last
\* and the container of the other runs unreferenced
C17_Witness ==
    \E p, q \in Procs :
        /\ p # q
        /\ nStarted = 2
        /\ Raced(p)
        /\ Raced(q)
        /\ StoredId(store[_get_key("s1")]) = res[p].val[1].id
        /\ res[q].val[1].id # res[p].val[1].id
        /\ containers[res[q].val[1].id] = "running"

\* what the four mutators maintain of a stored document (none: the defaults)
Fields(rec) ==
    IF rec = <<>>
    THEN [count |-> 0, history |-> <<>>, has_sandbox |-> FALSE, container_id |-> None]
    ELSE [count |-> rec[1].running_task_count,
          history |-> rec[1].task_history,
          has_sandbox |-> rec[1].has_sandbox,
          container_id |-> rec[1].container_id]

\* worker p's pipeline executes: its operation returns and its write lands
Lands(p, label) == pc[p] = label /\ pc'[p] = "idle"

\* C18: under any interleaving of register_task, finish_task, set_sandbox_state
\* and set_container_id on one session, the write of each operation that
\* completes applies its change to the record as it is at that moment: the
\* count moves by one (not below 0), task_history gains the registered name,
\* has_sandbox and container_id take the value written, and every other field
\* keeps what the operations before it left
C18_AtomicReadModifyWrite ==
    [][\A p \in Procs :
          LET old == Fields(store[_get_key(loc[p].correlation_id)])
              new == Fields(store'[_get_key(loc[p].correlation_id)])
          IN  /\ Lands(p, "rt_exec")
                 => new = [old EXCEPT !.count = @ + 1,
                                      !.history = IF loc[p].task_name # ""
                                                  THEN Append(@, loc[p].task_name) ELSE @]
              /\ Lands(p, "ft_exec")
                 => new = [old EXCEPT !.count = IF @ > 0 THEN @ - 1 ELSE 0]
              /\ Lands(p, "sb_exec")
                 => new = [old EXCEPT !.has_sandbox = loc[p].has_sandbox]
              /\ Lands(p, "sc_exec")
                 => new = [old EXCEPT !.container_id = loc[p].container_id]]_vars

\* two overlapping calls have both completed and the record holds both changes
C18_Witness ==
    \E p, q \in Procs :
        /\ res[p].op = "register_task"
        /\ res[p].out = "ret"
        /\ res[p].pre.rec = <<>>
        /\ res[q].op = "set_container_id"
        /\ res[q].out = "ret"
        /\ res[q].pre.rec = <<>>
        /\ Fields(store[_get_key("s1")]).count = 1
        /\ Fields(store[_get_key("s1")]).container_id # None

\* C19: cleanup_old_tasks deletes a record only if, at the time of the delete,
\* it counts no running task and is idle beyond max_age_hours, whatever
\* register_task calls run beside it: a completed register_task is not erased
C19_DeletesOnlyExpired ==
    [][\A p \in Procs :
          (pc[p] = "ot_delete" /\ pc'[p] # pc[p])
          => Expired(store[_get_key(loc[p].correlation_id)], loc[p].now)]_vars

\* the wrapped invocations on session i whose register_task has returned and
\* whose finish_task has not
InBody(i) ==
    {p \in Procs : /\ loc[p].op = "track_task"
                   /\ loc[p].correlation_id = i
                   /\ pc[p] \in {"tk_body", "ft_watch", "ft_get", "ft_exec"}}

\* C20: a wrapped invocation with a non-empty id registers before its body and
\* finishes exactly once after it, whether the body returns or raises: at every
\* moment running_task_count is the number of invocations between the two, no
\* finish_task comes without its register_task, and once all invocations have
\* returned the count is 0 and as many finish_task as register_task calls
\* have completed
C20_WrapperBalances ==
    \A i \in SessionIds :
        /\ Count(i) = Cardinality(InBody(i))
        /\ nReg[i] - nFin[i] = Cardinality(InBody(i))
        /\ ~exceeded[i]
        /\ \A p \in Procs :
              (res[p].op = "track_task" /\ res[p].id = i)
              => /\ res[p].out \in {"ret", "Exception"}
                 /\ nFin[i] >= 1

\* invocations have run concurrently, one of them raised, all have returned and
\* the count is back to 0
C20_Witness ==
    /\ AllIdle
    /\ \E p, q \in Procs :
          /\ p # q
          /\ res[p].op = "track_task"
          /\ res[p].id = "s1"
          /\ res[p].out = "Exception"
          /\ res[q].op = "track_task"
          /\ res[q].id = "s1"
          /\ res[q].out = "ret"
    /\ nFin["s1"] >= 2
    /\ store[_get_key("s1")] # <<>>
    /\ Count("s1") = 0

\* C21: in every stored record container_created_at is present if and only if
\* container_id is, after any sequence of register_task, finish_task,
\* set_sandbox_state, set_container_id, create, get, ensure and exec
C21_CreatedAtIffContainerId ==
    \A k \in Keys :
        store[k] # <<>>
        => (store[k][1].container_created_at # JsonNull <=> store[k][1].container_id # None)

\* set_container_id has put a container id into a record register_task made
C21_Witness ==
    \E p \in Procs :
        /\ res[p].op = "set_container_id"
        /\ res[p].out = "ret"
        /\ res[p].pre.rec # <<>>
        /\ res[p].pre.rec[1].container_id = None
        /\ res[p].pre.rec[1].container_created_at = JsonNull
        /\ store[_get_key(res[p].id)][1].container_id # None
        /\ store[_get_key(res[p].id)][1].container_created_at # JsonNull

\* the operations of the orchestrator
ManagerOps ==
    {"build_image", "create_container", "get_container", "ensure_container",
     "exec_command", "stop_container", "remove_container"}

\* C22: when the runtime was unreachable at construction, every later call of
\* build_image, create, get, ensure, exec, stop and remove raises RuntimeError,
\* also after the daemon has come back, and no step of such a call changes a
\* record, a container or the image
C22_DisabledForLife ==
    [][~dockerAvailable
       => \A p \in Procs :
             (loc[p].op \in ManagerOps /\ pc'[p] # pc[p])
             => /\ store' = store
                /\ runtime' = runtime
                /\ pc'[p] = "idle"
                /\ res'[p].out = "RuntimeError"]_vars

\* the daemon has come back since construction failed and exec_command raised
C22_Witness ==
    /\ ~dockerAvailable
    /\ daemonUp
    /\ \E p \in Procs : res[p].op = "exec_command" /\ res[p].out = "RuntimeError"

\* the operations of the store
StoreOps ==
    {"register_task", "finish_task", "set_sandbox_state", "set_container_id",
     "get_state", "get_container_id"}

\* C23: when the redis server cannot be reached, every store operation called
\* with a session id fails with an exception and returns no value, so that an
\* outage is not reported as a missing record or a missing container
C23_OutageSurfaces ==
    ~redisUp
    => \A p \in Procs :
          (res[p].op \in StoreOps /\ res[p].id # "") => res[p].out = "ConnectionError"

\* C24: stop_container and remove_container raise only when the runtime was
\* unreachable at construction; otherwise they return False when get_container
\* resolves no container, True when the stop (the stop and the removal) went
\* through in the runtime, and False when the runtime call failed
C24_StopRemoveBooleans ==
    \A p \in Procs :
        res[p].op \in {"stop_container", "remove_container"}
        => LET c == StoredId(res[p].pre.rec)
               failed == res[p].seen \cap {"down", "ext", "stop_failed", "remove_failed"} # {}
           IN  /\ res[p].out \in {"ret", "RuntimeError"}
               /\ res[p].out = "RuntimeError" <=> ~dockerAvailable
               /\ (res[p].out = "ret" /\ res[p].pre.cst \in {"none", "absent"}
                                    /\ "ext" \notin res[p].seen)
                  => res[p].val = <<FALSE>>
               /\ (res[p].out = "ret" /\ res[p].val = <<TRUE>>)
                  => /\ res[p].pre.cst \in {"running", "exited"}
                     /\ containers[c] = IF res[p].op = "stop_container"
                                        THEN "exited" ELSE "absent"
               /\ (res[p].out = "ret" /\ res[p].val = <<FALSE>>)
                  => res[p].pre.cst \in {"none", "absent"} \/ failed
               /\ (res[p].out = "ret" /\ res[p].pre.cst \in {"running", "exited"} /\ ~failed)
                  => res[p].val = <<TRUE>>

\* remove_container has removed the running container of the session
C24_Witness ==
    \E p \in Procs :
        /\ res[p].op = "remove_container"
        /\ res[p].pre.cst = "running"
        /\ res[p].val = <<TRUE>>
        /\ containers[StoredId(res[p].pre.rec)] = "absent"

\* C25: register_task with an empty id raises ValueError and changes no
\* record; with a non-empty id and no record it creates the record with
\* running_task_count 1 and the task's name as its whole task_history (an
\* empty history when the caller gave no name)
C25_RegisterCreatesLazily ==
    [][\A p \in Procs :
          /\ (Dispatch(p) /\ nStarted' # nStarted
                /\ res'[p].op = "register_task" /\ res'[p].id = "")
             => /\ res'[p].out = "ValueError"
                /\ store' = store
          /\ (pc[p] = "rt_exec" /\ pc'[p] = "idle" /\ loc[p].op = "register_task"
                /\ store[_get_key(loc[p].correlation_id)] = <<>>)
             => LET rec == store'[_get_key(loc[p].correlation_id)] IN
                /\ rec # <<>>
                /\ rec[1].running_task_count = 1
                /\ rec[1].task_history = IF loc[p].task_name # ""
                                         THEN <<loc[p].task_name>> ELSE <<>>
                /\ rec[1].correlation_id = loc[p].correlation_id
                /\ res'[p].out = "ret"]_vars

\* register_task has created the record of a session that had none
C25_Witness ==
    \E p \in Procs :
        /\ res[p].op = "register_task"
        /\ res[p].out = "ret"
        /\ res[p].pre.rec = <<>>
        /\ store[_get_key(res[p].id)] # <<>>
        /\ store[_get_key(res[p].id)][1].running_task_count = 1
        /\ store[_get_key(res[p].id)][1].task_history = <<"build">>

\* C26: finish_task on an existing record decrements running_task_count, not
\* below 0, and stamps last_seen and last_task_completed_at, leaving every
\* other field as it was; on a missing record it returns None and creates
\* no record
C26_FinishFrame ==
    [][\A p \in Procs :
          LET key == _get_key(loc[p].correlation_id) IN
          /\ (pc[p] = "ft_exec" /\ pc'[p] = "idle" /\ loc[p].op = "finish_task")
             => /\ store[key] # <<>>
                /\ store'[key] =
                      <<[store[key][1] EXCEPT
                            !.running_task_count = IF @ > 0 THEN @ - 1 ELSE 0,
                            !.last_seen = isoformat(loc[p].now),
                            !.last_task_completed_at = isoformat(loc[p].now)]>>
                /\ \A k \in Keys \ {key} : store'[k] = store[k]
                /\ res'[p].out = "ret"
          /\ (pc[p] = "ft_get" /\ pc'[p] = "idle" /\ loc[p].op = "finish_task")
             => /\ store[key] = <<>>
                /\ store' = store
                /\ res'[p].out = "ret"
                /\ res'[p].val = <<>>]_vars

\* finish_task on a record that counted no running task has left the count at 0
\* and stamped the completion
C26_Witness ==
    \E p \in Procs :
        /\ res[p].op = "finish_task"
        /\ res[p].out = "ret"
        /\ res[p].pre.rec # <<>>
        /\ res[p].pre.rec[1].running_task_count = 0
        /\ res[p].pre.rec[1].container_id # None
        /\ store[_get_key(res[p].id)][1].running_task_count = 0
        /\ store[_get_key(res[p].id)][1].last_task_completed_at # JsonNull
        /\ store[_get_key(res[p].id)][1].container_id = res[p].pre.rec[1].container_id

\* worker p's exec_command is in its NotFound handler (lines 267-285)
InRetry(p) ==
    /\ loc[p].op = "exec_command"
    /\ \/ pc[p] \in {"ex_nf_get", "ex_nf_run"}
       \/ \E k \in 1..Len(stk[p]) : stk[p][k] = "X271"

C28_StaleReplaced ==
    \A p \in Procs :
        (/\ res[p].op = "ensure_container"
         /\ res[p].out = "ret"
         /\ res[p].pre.cst = "exited"
         /\ res[p].seen \cap {"start_failed", "start_noop"} # {}
         /\ res[p].seen \cap {"ext", "down"} = {})
        => /\ res[p].made = 1
           /\ res[p].val[1].id # StoredId(res[p].pre.rec)
           /\ get_container_id(res[p].id) = res[p].val[1].id

ExecLabels == {"rt_exec", "ft_exec", "sb_exec", "sc_exec"}

\* C30: with finitely many concurrent mutations of one key and workers that
\* keep running, every mutation that has started returns, its write landed;
\* a mutation goes round its loop again only when its WATCH was broken, and a
\* WATCH is broken only by the write of another worker to the same key
C30_RetriesEnd ==
    /\ \A p \in Procs : (pc[p] # "idle") ~> (pc[p] = "idle")
    /\ [][\A p \in Procs :
             /\ (pc[p] \in ExecLabels /\ pc'[p] \notin ExecLabels \cup {"idle"})
                => watch[p] = "dirty"
             /\ (watch[p] = "clean" /\ watch'[p] = "dirty")
                => \E q \in Procs \ {p} :
                      /\ pc[q] \in ExecLabels
                      /\ pc'[q] = "idle"
                      /\ loc[q].correlation_id = loc[p].correlation_id
                      /\ store'[_get_key(loc[q].correlation_id)]
                            = <<to_dict(loc[q].state[1])>>]_vars

\* a write has landed while another worker was between its WATCH and its
\* execute(): that worker is about to go round again
C30_Witness ==
    \E p, q \in Procs :
        /\ p # q
        /\ res[p].op \in {"register_task", "set_container_id"}
        /\ res[p].out = "ret"
        /\ pc[q] \in ExecLabels
        /\ watch[q] = "dirty"

IsPrefix(a, b) == Len(a) <= Len(b) /\ SubSeq(b, 1, Len(a)) = a

\* worker p's pipeline executes register_task's write in this step
RegisterLands(p) ==
    /\ loc[p].op = "register_task"
    /\ pc[p] = "rt_exec"
    /\ pc'[p] # "rt_exec"
    /\ store' # store

\* C32: as long as the record of a session exists, every write of it keeps
\* first_seen and keeps the stored task_history as a prefix of the new one,
\* and register_task on an existing record leaves has_sandbox, container_id,
\* container_created_at and last_task_completed_at as they were
C32_HistoryAppendOnly ==
    [][/\ \A k \in Keys :
             (store[k] # <<>> /\ store'[k] # <<>>)
             => /\ store'[k][1].first_seen = store[k][1].first_seen
                /\ IsPrefix(store[k][1].task_history, store'[k][1].task_history)
       /\ \A p \in Procs :
             LET k == _get_key(loc[p].correlation_id) IN
             (RegisterLands(p) /\ store[k] # <<>>)
             => /\ store'[k][1].has_sandbox = store[k][1].has_sandbox
                /\ store'[k][1].container_id = store[k][1].container_id
                /\ store'[k][1].container_created_at = store[k][1].container_created_at
                /\ store'[k][1].last_task_completed_at = store[k][1].last_task_completed_at
                /\ Len(store'[k][1].task_history)
                      = Len(store[k][1].task_history)
                        + (IF loc[p].task_name # "" THEN 1 ELSE 0)]_vars

\* a second named task has been registered on the record of a session that has
\* a container: the history holds both names and the container is still there
C32_Witness ==
    \E p \in Procs :
        /\ res[p].op = "register_task"
        /\ res[p].out = "ret"
        /\ store[_get_key("s1")] # <<>>
        /\ store[_get_key("s1")][1].task_history = <<"build", "build">>
        /\ store[_get_key("s1")][1].container_id # None
        /\ store[_get_key("s1")][1].container_created_at # JsonNull

\* C33: under every interleaving of register_task and finish_task on one
\* session, no write of the record stores a last_seen or a
\* last_task_completed_at older than the one it replaces
C33_TimestampsNeverGoBack ==
    [][\A k \in Keys :
          (store[k] # <<>> /\ store'[k] # <<>>)
          => /\ fromisoformat(store'[k][1].last_seen) >= fromisoformat(store[k][1].last_seen)
             /\ store[k][1].last_task_completed_at # JsonNull
                => /\ store'[k][1].last_task_completed_at # JsonNull
                   /\ fromisoformat(store'[k][1].last_task_completed_at)
                         >= fromisoformat(store[k][1].last_task_completed_at)]_vars

\* C34: cleanup_old_tasks deletes a record that names a container only when the
\* runtime no longer has that container at the time of the delete
C34_NoContainerOrphaned ==
    [][\A p \in Procs :
          LET k == _get_key(loc[p].correlation_id) IN
          (/\ loc[p].op = "cleanup_old_tasks"
           /\ pc[p] = "ot_delete"
           /\ pc'[p] # "ot_delete"
           /\ store[k] # <<>>
           /\ store'[k] = <<>>
           /\ store[k][1].container_id # None)
          => containers[store[k][1].container_id] = "absent"]_vars

\* the sessions other than i whose record names container c
OtherOwners(i, c) ==
    {j \in ScanIds \ {i} : StoredId(store[_get_key(j)]) = c}

\* C35: no two records name the same container, and a step of create_container,
\* ensure_container, exec_command, stop_container or remove_container for one
\* session changes no container that the record of another session names and
\* no record of another session
C35_SessionsIsolated ==
    /\ [](\A i, j \in ScanIds :
             (/\ i # j
              /\ StoredId(store[_get_key(i)]) # None)
             => StoredId(store[_get_key(i)]) # StoredId(store[_get_key(j)]))
    /\ [][\A p \in Procs :
             (pc[p] # "idle" /\ pc'[p] # pc[p])
             => /\ \A c \in Cids :
                      containers'[c] # containers[c]
                      => OtherOwners(loc[p].correlation_id, c) = {}
                /\ \A j \in ScanIds \ {loc[p].correlation_id} :
                      store'[_get_key(j)] = store[_get_key(j)]]_vars

\* ensure_container for s1 has replaced the container of s1 beside an
\* exec_command for s2; the record of s2 and the container it names are as
\* they were
C35_Witness ==
    \E p \in Procs :
        /\ \E q \in Procs \ {p} :
              /\ res[q].op = "exec_command"
              /\ res[q].id = "s2"
              /\ res[q].out = "ret"
              /\ res[q].ran = 1
        /\ res[p].op = "ensure_container"
        /\ res[p].id = "s1"
        /\ res[p].out = "ret"
        /\ res[p].made = 1
        /\ get_container_id("s1") = 3
        /\ get_container_id("s2") = 2
        /\ containers[2] = "running"
        /\ containers[3] = "running"

====
